---- MODULE Spec2Model ----
(***************************************************************************)
(* Verification model of the hands-free recorder:                          *)
(*   - the gesture classifier of FlicService (src/services/FlicService.ts) *)
(*   - the scanning / connection manager of FlicService                    *)
(*   - the durable upload queue UploadQueue  (src/ui/HomeView.tsx:475-784) *)
(*                                                                         *)
(* Time in the gesture classifier is counted in milliseconds relative to   *)
(* the last event (timers hold their remaining time), and advances in      *)
(* steps of Quantum, the greatest common divisor of the three timing       *)
(* constants of the source.  A JavaScript timer is taken to run when its   *)
(* delay has elapsed: time does not advance past a due timer.  A timer and *)
(* a notification due at the same instant run in either order.             *)
(***************************************************************************)
EXTENDS Integers, Sequences, FiniteSets, Bags, TLC

(***************************************************************************)
(* Bounds of the model.                                                    *)
(***************************************************************************)
MaxNotifications == 4
MaxEnqueue == 1
MaxStored == 1
MaxRetryFailedCalls == 1
MaxClearCalls == 1
MaxLoops == 2
MaxTimeJumps == 1
MaxUpdateConfigCalls == 1
MaxStartCalls == 1
MaxDisconnectCalls == 1
MaxBleOn == 1
MaxConnects == 1
MaxRepeatedDisconnects == 2
MaxGestures == 3
MaxToggles == 1
MaxPrepareFailures == 3
MaxAttempt == 6

(***************************************************************************)
(* Program constants of FlicService.                                       *)
(***************************************************************************)
FLIC_BUTTON_DOWN == 1
FLIC_BUTTON_UP == 2
FLIC_CLICK == 3
FLIC_DOUBLE_CLICK == 4
FLIC_HOLD == 5
HoldMs == 1000
DoubleClickWindowMs == 400
DecideMs_slow == HoldMs \div 2
DecideMs == 250

RECURSIVE GCD(_, _)
GCD(a, b) == IF b = 0 THEN a ELSE GCD(b, a % b)

Quantum == GCD(HoldMs, GCD(DoubleClickWindowMs, DecideMs))

Min(a, b) == IF a < b THEN a ELSE b

\* Elapsed times are kept up to one quantum past the largest delay they are
\* compared with; the saturated value stands for "longer than that".
ElapsedCap == DoubleClickWindowMs + Quantum
PressCap == HoldMs + Quantum

\* A notification payload after base64 decoding: valid = FALSE is a payload
\* atob() rejects; otherwise the decoded bytes (only bytes[0] is read).
Bytes == 0 .. 6
Payloads ==
    {[valid |-> FALSE, bytes |-> <<>>], [valid |-> TRUE, bytes |-> <<>>]}
        \cup {[valid |-> TRUE, bytes |-> <<b>>] : b \in Bytes}

VARIABLES
    \* ---- FlicService gesture classifier
    holdTimer,       \* "null" | "armed" | "fired" (a fired handle stays non-null)
    holdLeft,        \* ms until the hold timer runs, when armed
    clickTimer,      \* "null" | "armed" | "fired"
    clickLeft,       \* ms until the decision timer runs, when armed
    clickCount,      \* this.clickCount
    sinceLastClick,  \* Date.now() - this.lastClickTime, saturated at ElapsedCap
    emitted,         \* delegate calls so far: [single, double, hold]
    notifications,   \* number of notifications delivered so far
    lastPayload,     \* the payload of the last notification (observation only)
    obs,             \* history of the physical interaction (observation only)
    \* ---- FlicService scanning and connection
    flic,            \* the fields of the instance and its pending asynchronous work
    \* ---- UploadQueue
    uq,              \* the UploadQueue instance and its pending asynchronous work
    storage,         \* AsyncStorage value under STORAGE_KEY
    files,           \* artifact paths that exist on disk
    now,             \* Date.now(), in days
    \* ---- AppController and RecorderService
    app,             \* the coordinator, the recorder and their pending asynchronous work
    \* ---- functions checked on their own
    delayCall,       \* a call of calculateRetryDelay(): its inputs and its result
    advert           \* a scanned peripheral and what isFlicButton() said of it

gvars == <<holdTimer, holdLeft, clickTimer, clickLeft, clickCount,
           sinceLastClick, emitted, notifications, lastPayload, obs, flic>>

qvars == <<uq, storage, files, now>>

\* The variables of the gesture classifier alone
kvars == <<holdTimer, holdLeft, clickTimer, clickLeft, clickCount,
           sinceLastClick, emitted, notifications, lastPayload, obs>>

\* The variables of the functions checked on their own
pvars == <<delayCall, advert>>

\* The variables outside the button service and the upload queue
avars == <<app, pvars>>

vars == <<gvars, qvars, avars>>

(***************************************************************************)
(* FlicService: gesture classifier                                         *)
(***************************************************************************)

\* obs.pressed        the last edge was a ButtonDown
\* obs.pressDur       ms since that ButtonDown (saturated at PressCap)
\* obs.holdsThisPress Hold events the hold timer emitted since that ButtonDown
\* obs.tainted        a release counted in clickCount ended a press that emitted Hold
\* obs.clicksFromHeld Single/DoubleClick events decided from such releases
\* obs.wellSpaced     so far only short press/release pairs, releases >= 400 ms apart
\* obs.ups            number of ButtonUp edges so far
\* obs.pairPhase      0 none, 1 after a fresh release, 2 after a second within the window
\* obs.pairSingles    SingleClicks emitted since the first release of the pair
\* obs.pairDoubles    DoubleClicks emitted since the first release of the pair
\* obs.fallbacks      notifications that handleGenericButtonEvent() has handled
\* obs.holdPending    hold timers created by setTimeout and neither run nor cleared
\* obs.clickPending   decision timers created and neither run nor cleared
\* obs.burstLen       releases since the decision timer last was not pending
ObsInit ==
    [pressed |-> FALSE, pressDur |-> 0, holdsThisPress |-> 0, tainted |-> FALSE,
     clicksFromHeld |-> 0, wellSpaced |-> TRUE, ups |-> 0,
     pairPhase |-> 0, pairSingles |-> 0, pairDoubles |-> 0, fallbacks |-> 0,
     holdPending |-> 0, clickPending |-> 0, burstLen |-> 0]

\* The scanning and connection fields after construction, with what the
\* platform provides: ble, a BleManager could be created; granted, what
\* requestPermissions() resolves to
FlicInit(ble, granted) ==
    [bleManager |-> ble,
     granted |-> granted,
     device |-> FALSE,
     isScanning |-> FALSE,
     reconnectInterval |-> FALSE,
     intervalLeft |-> 0,
     timers |-> {},
     permReqs |-> [explicit |-> 0, timer |-> 0],
     connecting |-> 0,
     discovering |-> 0,
     handler |-> FALSE,
     link |-> "down",
     discEvent |-> FALSE,
     cancels |-> 0,
     nativeScans |-> 0,
     monitoring |-> FALSE,
     scanAge |-> 0,
     scanBy |-> "none",
     ret |-> "none",
     reported |-> "none",
     suspended |-> FALSE,
     overlap |-> FALSE,
     expired |-> FALSE,
     calls |-> [startScanning |-> 0, disconnect |-> 0, bleOn |-> 0,
                repeats |-> 0]]

ClassifierInit ==
    /\ holdTimer = "null"
    /\ holdLeft = 0
    /\ clickTimer = "null"
    /\ clickLeft = 0
    /\ clickCount = 0
    /\ sinceLastClick = ElapsedCap      \* lastClickTime = 0, long before now
    /\ emitted = [single |-> 0, double |-> 0, hold |-> 0]
    /\ notifications = 0
    /\ lastPayload = [valid |-> FALSE, bytes |-> <<>>]
    /\ obs = ObsInit

GInit == ClassifierInit /\ flic = FlicInit(TRUE, TRUE)

Emit(kind) == [emitted EXCEPT ![kind] = @ + 1]

\* now - this.lastClickTime < 400
WithinDoubleWindow(elapsed) == elapsed < DoubleClickWindowMs

\* clearTimeout(handle): one pending timer less, unless the handle's timer
\* has run already
ClearTimeout_none(handle, pending) == pending
ClearTimeout(handle, pending) ==
    IF handle = "armed" THEN pending - 1 ELSE pending

\* handleButtonDown(): clear a previous hold timer, arm a new one
HandleButtonDown ==
    /\ holdTimer' = "armed"
    /\ holdLeft' = HoldMs
    /\ UNCHANGED <<clickTimer, clickLeft, clickCount, sinceLastClick, emitted>>
    /\ obs' = [obs EXCEPT !.pressed = TRUE, !.pressDur = 0, !.holdsThisPress = 0,
                          !.wellSpaced = @ /\ ~obs.pressed,
                          !.holdPending = ClearTimeout(holdTimer, @) + 1]

\* handleButtonUp(): cancel the hold timer, count the click, re-arm the
\* decision timer
HandleButtonUp ==
    /\ holdTimer' = "null"
    /\ holdLeft' = 0
    /\ clickCount' = IF WithinDoubleWindow(sinceLastClick) THEN clickCount + 1 ELSE 1
    /\ sinceLastClick' = 0
    /\ clickTimer' = "armed"
    /\ clickLeft' = DecideMs
    /\ UNCHANGED emitted
    /\ LET fresh == sinceLastClick >= DoubleClickWindowMs
           held == obs.pressed /\ obs.holdsThisPress > 0
       IN obs' = [obs EXCEPT
            !.pressed = FALSE,
            !.ups = @ + 1,
            !.tainted = held \/ (~fresh /\ obs.tainted),
            !.wellSpaced = @ /\ obs.pressed /\ obs.pressDur < HoldMs /\ fresh,
            !.pairPhase = IF fresh THEN 1
                          ELSE IF obs.pairPhase = 1 THEN 2
                          ELSE 0,
            !.pairSingles = IF fresh THEN 0 ELSE @,
            !.pairDoubles = IF fresh THEN 0 ELSE @,
            !.holdPending = ClearTimeout(holdTimer, @),
            !.clickPending = ClearTimeout(clickTimer, @) + 1,
            !.burstLen = IF clickTimer = "armed" THEN @ + 1 ELSE 1]

\* handleGenericButtonEvent(): a single click for every undecodable event
HandleGenericButtonEvent ==
    /\ emitted' = Emit("single")
    /\ UNCHANGED <<holdTimer, holdLeft, clickTimer, clickLeft, clickCount,
                   sinceLastClick>>
    /\ obs' = [obs EXCEPT !.wellSpaced = FALSE, !.pairPhase = 0,
                          !.fallbacks = @ + 1]

\* A pre-classified code: the mapped delegate call, nothing else
EmitDirect_asRelease(kind) == HandleButtonUp
EmitDirect(kind) ==
    /\ emitted' = Emit(kind)
    /\ UNCHANGED <<holdTimer, holdLeft, clickTimer, clickLeft, clickCount,
                   sinceLastClick>>
    /\ obs' = [obs EXCEPT !.wellSpaced = FALSE, !.pairPhase = 0]

\* handleFlicButtonEvent(data)
HandleFlicButtonEvent(p) ==
    IF ~p.valid THEN HandleGenericButtonEvent
    ELSE IF Len(p.bytes) = 0
        THEN /\ UNCHANGED <<holdTimer, holdLeft, clickTimer, clickLeft,
                            clickCount, sinceLastClick, emitted>>
             /\ obs' = [obs EXCEPT !.wellSpaced = FALSE, !.pairPhase = 0]
    ELSE LET eventCode == p.bytes[1] IN
         CASE eventCode = FLIC_CLICK -> EmitDirect("single")
           [] eventCode = FLIC_DOUBLE_CLICK -> EmitDirect("double")
           [] eventCode = FLIC_HOLD -> EmitDirect("hold")
           [] eventCode = FLIC_BUTTON_DOWN -> HandleButtonDown
           [] eventCode = FLIC_BUTTON_UP -> HandleButtonUp
           [] OTHER -> HandleGenericButtonEvent

\* The monitor callback delivers one notification
Notify ==
    /\ notifications < MaxNotifications
    /\ notifications' = notifications + 1
    /\ \E p \in Payloads :
          /\ HandleFlicButtonEvent(p)
          /\ lastPayload' = p
    /\ UNCHANGED <<flic, qvars, avars>>

\* The hold timer runs: onHold(); the handle is left as it is
HoldTimerFires ==
    /\ holdTimer = "armed"
    /\ holdLeft = 0
    /\ holdTimer' = "fired"
    /\ emitted' = Emit("hold")
    /\ obs' = [obs EXCEPT !.holdsThisPress = @ + 1, !.holdPending = @ - 1]
    /\ UNCHANGED <<holdLeft, clickTimer, clickLeft, clickCount, sinceLastClick,
                   notifications, lastPayload, flic, qvars, avars>>

\* The decision timer runs: one event according to clickCount, counter reset
ClickTimerFires ==
    /\ clickTimer = "armed"
    /\ clickLeft = 0
    /\ clickTimer' = "fired"
    /\ emitted' = IF clickCount = 1 THEN Emit("single")
                  ELSE IF clickCount >= 2 THEN Emit("double")
                  ELSE emitted
    /\ clickCount' = 0
    /\ obs' = [obs EXCEPT
            !.tainted = FALSE,
            !.clicksFromHeld = IF obs.tainted /\ clickCount >= 1 THEN @ + 1 ELSE @,
            !.pairSingles = IF clickCount = 1 THEN @ + 1 ELSE @,
            !.pairDoubles = IF clickCount >= 2 THEN @ + 1 ELSE @,
            !.clickPending = @ - 1,
            !.burstLen = 0]
    /\ UNCHANGED <<holdTimer, holdLeft, clickLeft, sinceLastClick, notifications,
                   lastPayload, flic, qvars, avars>>

\* Quantum milliseconds pass; no timer is overdue
Tick ==
    /\ ~(holdTimer = "armed" /\ holdLeft = 0)
    /\ ~(clickTimer = "armed" /\ clickLeft = 0)
    /\ holdLeft' = IF holdTimer = "armed" THEN holdLeft - Quantum ELSE holdLeft
    /\ clickLeft' = IF clickTimer = "armed" THEN clickLeft - Quantum ELSE clickLeft
    /\ sinceLastClick' = Min(ElapsedCap, sinceLastClick + Quantum)
    /\ LET dur == IF obs.pressed THEN Min(PressCap, obs.pressDur + Quantum)
                  ELSE obs.pressDur
       IN obs' = [obs EXCEPT
            !.pressDur = dur,
            !.wellSpaced = @ /\ ~(obs.pressed /\ dur >= HoldMs)]
    /\ UNCHANGED <<holdTimer, clickTimer, clickCount, emitted, notifications,
                   lastPayload, flic, qvars, avars>>

GNext ==
    \/ Notify
    \/ HoldTimerFires
    \/ ClickTimerFires
    \/ Tick

(***************************************************************************)
(* FlicService: scanning and connection                                    *)
(*                                                                         *)
(* flic holds the fields of the instance and the asynchronous work it has  *)
(* started.  Times are in milliseconds and advance in steps of ConnQuantum.*)
(*   bleManager        a BleManager exists (this.bleManager # null)        *)
(*   granted           what requestPermissions() resolves to               *)
(*   device            this.device # null                                  *)
(*   isScanning        this.isScanning                                     *)
(*   reconnectInterval this.reconnectInterval # null; intervalLeft is the  *)
(*                     time to its next run                                *)
(*   timers            pending setTimeout callbacks, [kind, left]: the     *)
(*                     scan timeout, the delayed startAutoReconnect() of   *)
(*                     the disconnection handler and of the catch block,   *)
(*                     the delayed subscribeToButtonEvents(); callbacks of *)
(*                     one kind due at the same instant do the same, so    *)
(*                     they are kept once                                  *)
(*   permReqs          startScanning() calls that await requestPermissions,*)
(*                     by caller ("explicit": the API, "timer": the        *)
(*                     reconnect interval)                                 *)
(*   connecting        connectToDevice() calls awaiting device.connect()   *)
(*   discovering       ... awaiting discoverAllServicesAndCharacteristics()*)
(*   handler           an onDisconnected handler is registered             *)
(*   link              the BLE link to the peripheral, "down" or "up"      *)
(*   discEvent         a disconnection event caused by cancelConnection()  *)
(*                     is still to be delivered                            *)
(*   cancels           disconnect() calls awaiting cancelConnection()      *)
(*   nativeScans       device scans started and not stopped or failed      *)
(*   monitoring        the notification monitor is subscribed              *)
(* and, for observation only:                                              *)
(*   scanAge           time since the running scan was started             *)
(*   scanBy            the caller of the startScanning() that started it   *)
(*   ret               what the last explicit startScanning() returned     *)
(*   reported          the last onConnectionChange(connected) argument     *)
(*   overlap           a startScanning() call was made while another one   *)
(*                     awaited requestPermissions()                        *)
(*   expired           a scan has been stopped by its scan timeout         *)
(*   suspended         disconnect() was called and startScanning() has not *)
(*                     been called since                                   *)
(*   calls             how often startScanning / disconnect were called    *)
(*                     and the PoweredOn state was reported; repeats: how  *)
(*                     often disconnect() was called again when an earlier *)
(*                     call had returned and had left no handle, no scan   *)
(*                     and no reconnect interval                           *)
(* A permission request, a cancelConnection() and the delivery of a        *)
(* disconnection event take less than one step of time; a scan that        *)
(* reports an error has ended; startDeviceScan() does not throw.           *)
(***************************************************************************)

ScanWindowMs == 15000
DisconnectRetryMs == 2000
SubscribeDelayMs == 1000
ConnectRetryMs == 3000
ReconnectIntervalMs == 8000

ConnQuantum ==
    GCD(ScanWindowMs,
        GCD(ReconnectIntervalMs,
            GCD(DisconnectRetryMs, GCD(ConnectRetryMs, SubscribeDelayMs))))

ScanAgeCap == ScanWindowMs + ConnQuantum

Timer(kind, left) == [kind |-> kind, left |-> left]

Callers == {"explicit", "timer"}

BoolStr(b) == IF b THEN "true" ELSE "false"

\* A startScanning() call by the caller `by` has returned r
Returned(f, by, r) == IF by = "explicit" THEN [f EXCEPT !.ret = BoolStr(r)] ELSE f

\* stopScanning()
StopScanning_noop(f) == f
StopScanning(f) ==
    IF f.isScanning /\ f.bleManager
    THEN [f EXCEPT !.nativeScans = 0, !.isScanning = FALSE, !.scanBy = "none",
                   !.scanAge = 0]
    ELSE f

\* startAutoReconnect()
StartAutoReconnect(f) ==
    IF f.reconnectInterval THEN f
    ELSE [f EXCEPT !.reconnectInterval = TRUE, !.intervalLeft = ReconnectIntervalMs]

\* startScanning() up to its await
StartScanningBegin(f, by) ==
    IF ~f.bleManager THEN Returned(f, by, FALSE)
    ELSE [f EXCEPT !.permReqs[by] = @ + 1,
                   !.overlap = @ \/ (\E c \in Callers : f.permReqs[c] > 0)]

\* startScanning() after requestPermissions() has resolved
BeginDeviceScan(f, by) ==
    Returned([f EXCEPT !.isScanning = TRUE,
                       !.nativeScans = @ + 1,
                       !.scanBy = by,
                       !.scanAge = 0,
                       !.timers = @ \cup {Timer("scanTimeout", ScanWindowMs)}],
             by, TRUE)

StartScanningRest_unguarded(f, by) ==
    IF ~f.granted THEN Returned(f, by, FALSE) ELSE BeginDeviceScan(f, by)
StartScanningRest(f, by) ==
    IF ~f.granted THEN Returned(f, by, FALSE)
    ELSE IF f.isScanning THEN Returned(f, by, TRUE)
    ELSE BeginDeviceScan(f, by)

\* connectToDevice(device) up to its first await
ConnectToDevice(f) == [f EXCEPT !.handler = TRUE, !.connecting = @ + 1]

\* The catch block of connectToDevice()
CatchConnect_noRetry(f) == [f EXCEPT !.device = FALSE, !.reported = "false"]
CatchConnect(f) ==
    [f EXCEPT !.device = FALSE, !.reported = "false",
              !.timers = @ \cup {Timer("reconnect", ConnectRetryMs)}]

\* The onDisconnected handler
OnDisconnected(f) ==
    [f EXCEPT !.device = FALSE, !.reported = "false",
              !.timers = @ \cup {Timer("reconnect", DisconnectRetryMs)}]

\* The reconnect interval callback
IntervalCallback_always(f) == StartScanningBegin(f, "timer")
IntervalCallback(f) ==
    IF ~f.device /\ ~f.isScanning THEN StartScanningBegin(f, "timer") ELSE f

\* The scan timeout callback
ScanTimeout_none(f) == f
ScanTimeout(f) ==
    IF f.isScanning THEN [StopScanning(f) EXCEPT !.expired = TRUE] ELSE f

\* The explicit API call startScanning()
StartScanningCall ==
    /\ flic.calls.startScanning < MaxStartCalls
    /\ flic' = StartScanningBegin(
                  [flic EXCEPT !.calls.startScanning = @ + 1,
                               !.suspended = FALSE,
                               !.ret = "none"],
                  "explicit")
    /\ UNCHANGED <<kvars, qvars, avars>>

\* requestPermissions() resolves for one startScanning() call
PermissionReturns(by) ==
    /\ flic.permReqs[by] > 0
    /\ flic' = StartScanningRest([flic EXCEPT !.permReqs[by] = @ - 1], by)
    /\ UNCHANGED <<kvars, qvars, avars>>

\* onStateChange reports PoweredOn
BleStateOn ==
    /\ flic.bleManager
    /\ flic.calls.bleOn < MaxBleOn
    /\ flic' = StartAutoReconnect([flic EXCEPT !.calls.bleOn = @ + 1])
    /\ UNCHANGED <<kvars, qvars, avars>>

\* The reconnect interval runs
IntervalFires ==
    /\ flic.reconnectInterval
    /\ flic.intervalLeft = 0
    /\ flic' = IntervalCallback([flic EXCEPT !.intervalLeft = ReconnectIntervalMs])
    /\ UNCHANGED <<kvars, qvars, avars>>

\* The scan callback reports a device that isFlicButton() accepts
ScanFindsFlic ==
    /\ flic.nativeScans > 0
    /\ flic.connecting + flic.discovering < MaxConnects
    /\ flic' = ConnectToDevice(StopScanning(flic))
    /\ UNCHANGED <<kvars, qvars, avars>>

\* The scan callback reports an error
ScanError ==
    /\ flic.nativeScans > 0
    /\ flic' = [flic EXCEPT !.isScanning = FALSE, !.nativeScans = 0,
                            !.scanBy = "none", !.scanAge = 0]
    /\ UNCHANGED <<kvars, qvars, avars>>

\* device.connect() resolves or throws
ConnectReturns ==
    /\ flic.connecting > 0
    /\ \/ flic' = [flic EXCEPT !.connecting = @ - 1, !.discovering = @ + 1,
                               !.device = TRUE, !.link = "up"]
       \/ flic' = CatchConnect([flic EXCEPT !.connecting = @ - 1])
    /\ UNCHANGED <<kvars, qvars, avars>>

\* discoverAllServicesAndCharacteristics() resolves or throws
DiscoverReturns ==
    /\ flic.discovering > 0
    /\ \/ /\ flic.link = "up"
          /\ flic' = [flic EXCEPT
                        !.discovering = @ - 1,
                        !.reported = "true",
                        !.timers = @ \cup {Timer("subscribe", SubscribeDelayMs)}]
       \/ flic' = CatchConnect([flic EXCEPT !.discovering = @ - 1])
    /\ UNCHANGED <<kvars, qvars, avars>>

\* The peripheral disconnects by itself
DeviceDisconnects ==
    /\ flic.link = "up"
    /\ LET f1 == [flic EXCEPT !.link = "down", !.monitoring = FALSE]
       IN flic' = IF flic.handler THEN OnDisconnected(f1) ELSE f1
    /\ UNCHANGED <<kvars, qvars, avars>>

\* The explicit API call disconnect(), up to its await if it has one, as
\* long as it has been called less than `limit` times
Disconnect(limit) ==
    /\ flic.calls.disconnect < limit
    /\ LET again == /\ flic.calls.disconnect > 0
                    /\ flic.cancels = 0
                    /\ ~flic.device /\ ~flic.isScanning /\ ~flic.reconnectInterval
           f1 == [flic EXCEPT !.calls.disconnect = @ + 1,
                              !.calls.repeats = IF again THEN @ + 1 ELSE @,
                              !.suspended = TRUE,
                              !.reconnectInterval = FALSE,
                              !.intervalLeft = 0]
       IN flic' = IF f1.device
                  THEN [f1 EXCEPT !.cancels = @ + 1,
                                  !.discEvent = @ \/ f1.link = "up",
                                  !.link = "down",
                                  !.monitoring = FALSE]
                  ELSE [StopScanning(f1) EXCEPT !.reported = "false"]
    /\ UNCHANGED <<kvars, qvars, avars>>

DisconnectCall == Disconnect(MaxDisconnectCalls)

\* disconnect() called up to MaxRepeatedDisconnects times
DisconnectRepeatedly == Disconnect(MaxRepeatedDisconnects)

\* cancelConnection() resolves or throws: the rest of disconnect()
CancelReturns ==
    /\ flic.cancels > 0
    /\ flic' = [StopScanning([flic EXCEPT !.cancels = @ - 1, !.device = FALSE])
                   EXCEPT !.reported = "false"]
    /\ UNCHANGED <<kvars, qvars, avars>>

\* The disconnection event of a cancelled connection is delivered
DeliverDisconnected ==
    /\ flic.discEvent
    /\ LET f1 == [flic EXCEPT !.discEvent = FALSE]
       IN flic' = IF flic.handler THEN OnDisconnected(f1) ELSE f1
    /\ UNCHANGED <<kvars, qvars, avars>>

\* A setTimeout callback runs
TimerFires ==
    \E t \in flic.timers :
        /\ t.left = 0
        /\ LET f1 == [flic EXCEPT !.timers = @ \ {t}]
           IN flic' = CASE t.kind = "scanTimeout" -> ScanTimeout(f1)
                        [] t.kind = "reconnect" -> StartAutoReconnect(f1)
                        [] OTHER ->
                             [f1 EXCEPT !.monitoring =
                                          @ \/ (f1.device /\ f1.link = "up")]
        /\ UNCHANGED <<kvars, qvars, avars>>

\* Time passes, unless a callback is due
ConnTick ==
    /\ \A t \in flic.timers : t.left > 0
    /\ flic.reconnectInterval => flic.intervalLeft > 0
    /\ \A by \in Callers : flic.permReqs[by] = 0
    /\ flic.cancels = 0
    /\ ~flic.discEvent
    /\ flic' = [flic EXCEPT
                  !.timers = {Timer(t.kind, t.left - ConnQuantum) : t \in @},
                  !.intervalLeft = IF flic.reconnectInterval
                                   THEN @ - ConnQuantum ELSE @,
                  !.scanAge = IF flic.nativeScans > 0
                              THEN Min(ScanAgeCap, @ + ConnQuantum) ELSE @]
    /\ UNCHANGED <<kvars, qvars, avars>>

CNext ==
    \/ StartScanningCall
    \/ \E by \in Callers : PermissionReturns(by)
    \/ BleStateOn
    \/ IntervalFires
    \/ ScanFindsFlic
    \/ ScanError
    \/ ConnectReturns
    \/ DiscoverReturns
    \/ DeviceDisconnects
    \/ DisconnectCall
    \/ CancelReturns
    \/ DeliverDisconnected
    \/ TimerFires
    \/ ConnTick

(***************************************************************************)
(* UploadQueue (src/ui/HomeView.tsx:475-784)                               *)
(*                                                                         *)
(* uq holds the fields of the instance and the asynchronous work it has    *)
(* started:                                                                *)
(*   queue        this.queue: the array, as references into heap           *)
(*   heap         the UploadItem objects (status "free": not allocated)    *)
(*   isProcessing this.isProcessing                                        *)
(*   config       this.config                                              *)
(*   loops        the running processQueue() invocations and where each    *)
(*                one waits: "saveStart" (the save after status =          *)
(*                uploading), "check" (getInfoAsync), "fetch" (uploadFile),*)
(*                "saveEnd" (the last save of processItem)                 *)
(*   writes       AsyncStorage.setItem calls in flight, oldest first, each *)
(*                with the JSON snapshot it writes and the code that       *)
(*                awaits it                                                *)
(*   timers       pending retry timers (setTimeout), counted by the item   *)
(*                whose failure scheduled them                             *)
(*   loadPending  the constructor's loadQueue() still awaits getItem       *)
(*   loaded       the value that getItem returns (read when issued)        *)
(*   nextId       the next value generateId() returns (ids are unique)     *)
(* and, for observation only:                                              *)
(*   hist         per object, the statuses it has gone through             *)
(*   outs         per object, the outcome of each of its attempts          *)
(*   reqs         per object, the delivery requests of its current attempt*)
(*   recovered    objects that loadQueue reset from uploading to pending   *)
(*   returned     the ids that enqueue() calls have returned                *)
(*   cleared      the value the last clearCompleted() call returns          *)
(*   calls        how often enqueue / retryFailed / clearCompleted /        *)
(*                updateConfig ran                                         *)
(*   configArgs   the arguments of the updateConfig() calls made           *)
(* AsyncStorage calls are taken to succeed and to complete in the order    *)
(* they were issued.                                                       *)
(***************************************************************************)

MaxObjects == MaxEnqueue + MaxStored
Refs == 1 .. MaxObjects
LoopIds == 1 .. MaxLoops

defaultConfig ==
    [maxRetries |-> 5, retryDelay |-> 2000, maxRetryDelay |-> 30000,
     cleanupAfterDays |-> 7]

\* The configurations the constructor is given (defaultConfig merged with a
\* Partial<UploadConfig>)
Configs == {[defaultConfig EXCEPT !.maxRetries = 3]}

Paths == {"a.m4a", "b.m4a"}

\* Arguments of enqueue(filePath, bookmarks, flagged)
EnqueueArgs ==
    {[path |-> "a.m4a", bookmarks |-> <<12, 45>>, flagged |-> FALSE],
     [path |-> "b.m4a", bookmarks |-> <<>>, flagged |-> TRUE]}

FreeItem ==
    [id |-> 0, path |-> "", bookmarks |-> <<>>, flagged |-> FALSE,
     retries |-> 0, createdAt |-> 0, status |-> "free"]

IdleLoop == [pc |-> "idle", item |-> 0]

\* What a previous session can have left under STORAGE_KEY: nothing, or a
\* collection of up to MaxStored items in any status, with the retry counts
\* that status allows under the configuration c
StoredItem(i, st, r) ==
    [id |-> i, path |-> "a.m4a", bookmarks |-> <<>>, flagged |-> FALSE,
     retries |-> r, createdAt |-> 0, status |-> st]

StoredChoices(c, i) ==
    {StoredItem(i, "pending", 0), StoredItem(i, "uploading", c.maxRetries - 1),
     StoredItem(i, "completed", 0), StoredItem(i, "failed", c.maxRetries)}

RECURSIVE StoredSeqs(_, _)
StoredSeqs(c, n) ==
    IF n = 0 THEN {<<>>}
    ELSE LET shorter == StoredSeqs(c, n - 1)
         IN shorter \cup {Append(q, it) : q \in {x \in shorter : Len(x) = n - 1},
                                         it \in StoredChoices(c, n)}

InitialStorages(c) ==
    {[present |-> FALSE, items |-> <<>>]}
        \cup {[present |-> TRUE, items |-> q] : q \in StoredSeqs(c, MaxStored)}

QInitWith(c, st) ==
    /\ uq = [queue |-> <<>>,
             heap |-> [r \in Refs |-> FreeItem],
             isProcessing |-> FALSE,
             config |-> c,
             loops |-> [l \in LoopIds |-> IdleLoop],
             writes |-> <<>>,
             timers |-> [r \in Refs |-> 0],
             loadPending |-> TRUE,
             loaded |-> st,
             nextId |-> MaxStored + 1,
             hist |-> [r \in Refs |-> <<>>],
             outs |-> [r \in Refs |-> <<>>],
             reqs |-> [r \in Refs |-> 0],
             recovered |-> {},
             cleared |-> 0,
             returned |-> {},
             configArgs |-> <<>>,
             calls |-> [enqueue |-> 0, retryFailed |-> 0, clearCompleted |-> 0,
                       updateConfig |-> 0]]
    /\ storage = st
    /\ files = {"a.m4a"}
    /\ now = 0

\* constructor(config): loadQueue() has issued getItem, the cleanup interval runs
QInit == \E c \in Configs : \E st \in InitialStorages(c) : QInitWith(c, st)

\* JSON.stringify(this.queue)
Snapshot(s) == [i \in 1 .. Len(s.queue) |-> s.heap[s.queue[i]]]

InQueue(s, o) == \E i \in 1 .. Len(s.queue) : s.queue[i] = o

SetStatus(s, o, st) ==
    [s EXCEPT !.heap[o].status = st, !.hist[o] = Append(@, st)]

\* saveQueue(): AsyncStorage.setItem(STORAGE_KEY, JSON.stringify(this.queue)),
\* awaited by the continuation c
SaveQueue(s, c) ==
    [s EXCEPT !.writes = Append(@, [data |-> Snapshot(s), cont |-> c])]

Cont(kind) == [kind |-> kind, loop |-> 0, any |-> FALSE, ret |-> 0]
LoopCont(l) == [kind |-> "loop", loop |-> l, any |-> FALSE, ret |-> 0]

\* this.queue.find(item => item.status === 'pending' &&
\*                         item.retries < this.config.maxRetries), 0 if none
Eligible_failedToo(s, o) ==
    /\ s.heap[o].status \in {"pending", "failed"}
    /\ s.heap[o].retries < s.config.maxRetries
Eligible(s, o) ==
    s.heap[o].status = "pending" /\ s.heap[o].retries < s.config.maxRetries

FindPending_last(s) ==
    LET hits == {i \in 1 .. Len(s.queue) : Eligible(s, s.queue[i])}
    IN IF hits = {} THEN 0
       ELSE s.queue[CHOOSE i \in hits : \A j \in hits : i >= j]
FindPending(s) ==
    LET hits == {i \in 1 .. Len(s.queue) : Eligible(s, s.queue[i])}
    IN IF hits = {} THEN 0
       ELSE s.queue[CHOOSE i \in hits : \A j \in hits : i <= j]

\* processItem(item) up to its first await: status = uploading, saveQueue()
ProcessItemBegin(s, l, o) ==
    SaveQueue(SetStatus([s EXCEPT !.loops[l] = [pc |-> "saveStart", item |-> o],
                                  !.reqs[o] = 0],
                        o, "uploading"),
              LoopCont(l))

\* One turn of the while loop of processQueue(), up to the next await; with
\* no item to process the loop ends and finally resets isProcessing
LoopIterate(s, l) ==
    LET o == FindPending(s)
    IN IF o = 0
       THEN [s EXCEPT !.isProcessing = FALSE, !.loops[l] = IdleLoop]
       ELSE ProcessItemBegin(s, l, o)

StartLoop(s) ==
    LET idle == {l \in LoopIds : s.loops[l].pc = "idle"}
    IN IF idle = {} THEN s
       ELSE LoopIterate([s EXCEPT !.isProcessing = TRUE],
                        CHOOSE l \in idle : \A k \in idle : l <= k)

\* processQueue(): returns at once when a loop is running
ProcessQueue_unguarded(s) == StartLoop(s)
ProcessQueue(s) == IF s.isProcessing THEN s ELSE StartLoop(s)

\* if (!this.isProcessing) this.processQueue()
ProcessQueueIfIdle_always(s) == StartLoop(s)
ProcessQueueIfIdle(s) == IF ~s.isProcessing THEN ProcessQueue(s) ELSE s

\* The catch block of processItem and its last save
FailAttempt_noCount(s, l, o) ==
    SaveQueue([SetStatus(s, o, "pending") EXCEPT
                   !.timers[o] = @ + 1, !.loops[l].pc = "saveEnd"],
              LoopCont(l))
FailAttempt_reset(s, l, o) ==
    LET s1 == [s EXCEPT !.heap[o].retries = @ + 1, !.loops[l].pc = "saveEnd"]
        s2 == IF s1.heap[o].retries >= s1.config.maxRetries
              THEN [SetStatus(s1, o, "failed") EXCEPT !.heap[o].retries = 0]
              ELSE [SetStatus(s1, o, "pending") EXCEPT !.timers[o] = @ + 1]
    IN SaveQueue(s2, LoopCont(l))
FailAttempt(s, l, o) ==
    LET s1 == [s EXCEPT !.heap[o].retries = @ + 1, !.loops[l].pc = "saveEnd"]
        s2 == IF s1.heap[o].retries >= s1.config.maxRetries
              THEN SetStatus(s1, o, "failed")
              ELSE [SetStatus(s1, o, "pending") EXCEPT !.timers[o] = @ + 1]
    IN SaveQueue(s2, LoopCont(l))

\* The file of the item is gone: failed at once, saved, no retry
MissingFile_retried(s, l, o) ==
    FailAttempt([s EXCEPT !.outs[o] = Append(@, "missing")], l, o)
MissingFile(s, l, o) ==
    SaveQueue([SetStatus(s, o, "failed") EXCEPT
                   !.loops[l].pc = "saveEnd",
                   !.outs[o] = Append(@, "missing")],
              LoopCont(l))

\* loadQueue(): an item stored as uploading is pending again
ResetUploading_kept(st) == st
ResetUploading(st) == IF st = "uploading" THEN "pending" ELSE st

\* The item enqueue() creates
NewItem_noBookmarks(id, a, t) ==
    [id |-> id, path |-> a.path, bookmarks |-> <<>>, flagged |-> a.flagged,
     retries |-> 0, createdAt |-> t, status |-> "pending"]
NewItem(id, a, t) ==
    [id |-> id, path |-> a.path, bookmarks |-> a.bookmarks, flagged |-> a.flagged,
     retries |-> 0, createdAt |-> t, status |-> "pending"]

\* enqueue(filePath, bookmarks, flagged) up to its await; the continuation
\* returns item.id
Enqueue ==
    /\ uq.calls.enqueue < MaxEnqueue
    /\ \E a \in EnqueueArgs :
        LET o == CHOOSE r \in Refs :
                    /\ uq.heap[r].status = "free"
                    /\ \A k \in Refs : uq.heap[k].status = "free" => r <= k
            item == NewItem(uq.nextId, a, now)
            s1 == [uq EXCEPT !.heap[o] = item,
                             !.hist[o] = <<"pending">>,
                             !.queue = Append(@, o),
                             !.nextId = @ + 1,
                             !.calls.enqueue = @ + 1]
        IN uq' = SaveQueue(s1, [Cont("enqueue") EXCEPT !.ret = item.id])
    /\ UNCHANGED <<storage, files, now, gvars, avars>>

\* retryFailed() up to its await
RetryFailed ==
    /\ uq.calls.retryFailed < MaxRetryFailedCalls
    /\ LET failedItems == {o \in Refs : InQueue(uq, o) /\ uq.heap[o].status = "failed"}
           s1 == [uq EXCEPT
                    !.heap = [o \in Refs |->
                                IF o \in failedItems
                                THEN [uq.heap[o] EXCEPT !.status = "pending",
                                                        !.retries = 0]
                                ELSE uq.heap[o]],
                    !.hist = [o \in Refs |->
                                IF o \in failedItems
                                THEN Append(uq.hist[o], "pending")
                                ELSE uq.hist[o]],
                    !.calls.retryFailed = @ + 1]
       IN uq' = SaveQueue(s1, [Cont("retryFailed") EXCEPT
                                  !.any = failedItems # {}])
    /\ UNCHANGED <<storage, files, now, gvars, avars>>

\* this.queue.filter(keep)
RECURSIVE FilterQueue(_, _)
FilterQueue(q, keep) ==
    IF q = <<>> THEN <<>>
    ELSE IF Head(q) \in keep THEN <<Head(q)>> \o FilterQueue(Tail(q), keep)
    ELSE FilterQueue(Tail(q), keep)

\* clearCompleted() up to its await
NotCompleted_norFailed(s, o) == s.heap[o].status \notin {"completed", "failed"}
NotCompleted(s, o) == s.heap[o].status # "completed"

ClearCompleted ==
    /\ uq.calls.clearCompleted < MaxClearCalls
    /\ LET completedCount ==
               Cardinality({i \in 1 .. Len(uq.queue) :
                               ~NotCompleted(uq, uq.queue[i])})
           keep == {o \in Refs : NotCompleted(uq, o)}
           s1 == [uq EXCEPT !.queue = FilterQueue(@, keep),
                            !.cleared = completedCount,
                            !.calls.clearCompleted = @ + 1]
       IN uq' = SaveQueue(s1, Cont("none"))
    /\ UNCHANGED <<storage, files, now, gvars, avars>>

\* cleanupOldItems(), run by the hourly interval
ShouldKeep_byAge(s, o, t) == s.heap[o].createdAt > t - s.config.cleanupAfterDays
ShouldKeep(s, o, t) ==
    \/ s.heap[o].status = "pending"
    \/ s.heap[o].status = "uploading"
    \/ s.heap[o].createdAt > t - s.config.cleanupAfterDays

CleanupOldItems ==
    LET keep == {o \in Refs : ShouldKeep(uq, o, now)}
        gone == {o \in Refs : InQueue(uq, o) /\ o \notin keep}
        s1 == [uq EXCEPT !.queue = FilterQueue(@, keep)]
    IN /\ gone # {}
       /\ uq' = SaveQueue(s1, Cont("none"))
       \* FileSystem.deleteAsync of each removed item's file; failures are ignored
       /\ \E deleted \in SUBSET {uq.heap[o].path : o \in gone} :
            files' = files \ deleted
       /\ UNCHANGED <<storage, now, gvars, avars>>

\* Time passes, one retention period at a time
AdvanceTime ==
    /\ now < MaxTimeJumps * uq.config.cleanupAfterDays
    /\ now' = now + uq.config.cleanupAfterDays
    /\ UNCHANGED <<uq, storage, files, gvars, avars>>

\* getItem has returned: the rest of loadQueue()
LoadQueueResumes ==
    /\ uq.loadPending
    /\ LET st == uq.loaded
           n == Len(st.items)
           free == {r \in Refs : uq.heap[r].status = "free"}
           \* JSON.parse creates new objects: the n lowest free references
           ref(i) == CHOOSE r \in free :
                        Cardinality({k \in free : k < r}) = i - 1
           was(i) == st.items[i].status = "uploading"
           s0 == [uq EXCEPT !.loadPending = FALSE]
           s1 == [s0 EXCEPT
                    !.queue = [i \in 1 .. n |-> ref(i)],
                    !.heap = [r \in Refs |->
                        IF \E i \in 1 .. n : ref(i) = r
                        THEN LET i == CHOOSE j \in 1 .. n : ref(j) = r
                             IN [st.items[i] EXCEPT
                                   !.status = ResetUploading(@)]
                        ELSE uq.heap[r]],
                    !.hist = [r \in Refs |->
                        IF \E i \in 1 .. n : ref(i) = r
                        THEN LET i == CHOOSE j \in 1 .. n : ref(j) = r
                             IN IF was(i)
                                THEN <<"uploading", ResetUploading("uploading")>>
                                ELSE <<st.items[i].status>>
                        ELSE uq.hist[r]],
                    !.recovered = {ref(i) : i \in {j \in 1 .. n : was(j)}}]
       IN uq' = IF ~st.present THEN s0
                ELSE IF \E i \in 1 .. n : s1.heap[ref(i)].status = "pending"
                     THEN ProcessQueue(s1)
                     ELSE s1
    /\ UNCHANGED <<storage, files, now, gvars, avars>>

\* An AsyncStorage.setItem completes: the value is stored and the code that
\* awaited it goes on
SaveCompletes ==
    /\ uq.writes # <<>>
    /\ LET w == Head(uq.writes)
           s1 == [uq EXCEPT !.writes = Tail(@)]
           l == w.cont.loop
       IN /\ storage' = [present |-> TRUE, items |-> w.data]
          /\ uq' = CASE w.cont.kind = "enqueue" ->
                            ProcessQueueIfIdle(
                                [s1 EXCEPT !.returned = @ \cup {w.cont.ret}])
                     [] w.cont.kind = "retryFailed" ->
                            IF w.cont.any THEN ProcessQueueIfIdle(s1) ELSE s1
                     [] w.cont.kind = "loop" ->
                            IF s1.loops[l].pc = "saveStart"
                            THEN [s1 EXCEPT !.loops[l].pc = "check"]
                            ELSE LoopIterate(s1, l)
                     [] OTHER -> s1
    /\ UNCHANGED <<files, now, gvars, avars>>

\* FileSystem.getInfoAsync(item.path) returns (or throws) in processItem
FileInfoReturns(l) ==
    /\ uq.loops[l].pc = "check"
    /\ LET o == uq.loops[l].item
       IN \/ /\ uq.heap[o].path \notin files
             /\ uq' = MissingFile(uq, l, o)
          \/ /\ uq.heap[o].path \in files
             /\ uq' = [uq EXCEPT !.loops[l].pc = "fetch", !.reqs[o] = @ + 1]
          \/ uq' = FailAttempt([uq EXCEPT !.outs[o] = Append(@, "fail")], l, o)
    /\ UNCHANGED <<storage, files, now, gvars, avars>>

\* uploadFile(item) returns true (a 2xx response) or false (anything else)
UploadReturns(l) ==
    /\ uq.loops[l].pc = "fetch"
    /\ LET o == uq.loops[l].item
       IN \/ uq' = SaveQueue(
                     [SetStatus(uq, o, "completed") EXCEPT
                         !.loops[l].pc = "saveEnd",
                         !.outs[o] = Append(@, "ok")],
                     LoopCont(l))
          \/ uq' = FailAttempt([uq EXCEPT !.outs[o] = Append(@, "fail")], l, o)
    /\ UNCHANGED <<storage, files, now, gvars, avars>>

\* A retry timer runs: if (!this.isProcessing) this.processQueue()
RetryTimerFires(o) ==
    /\ uq.timers[o] > 0
    /\ uq' = ProcessQueueIfIdle([uq EXCEPT !.timers[o] = @ - 1])
    /\ UNCHANGED <<storage, files, now, gvars, avars>>

\* updateConfig(newConfig): this.config = { ...this.config, ...newConfig }
NewConfigs ==
    {[maxRetries |-> 1],
     [maxRetries |-> 4, retryDelay |-> 1000, maxRetryDelay |-> 10000,
      cleanupAfterDays |-> 1]}

MergeConfig_ignored(c, partial) == c
MergeConfig(c, partial) ==
    [k \in DOMAIN c |-> IF k \in DOMAIN partial THEN partial[k] ELSE c[k]]

UpdateConfig ==
    /\ uq.calls.updateConfig < MaxUpdateConfigCalls
    /\ \E newConfig \in NewConfigs :
          uq' = [uq EXCEPT !.config = MergeConfig(@, newConfig),
                           !.configArgs = Append(@, newConfig),
                           !.calls.updateConfig = @ + 1]
    /\ UNCHANGED <<storage, files, now, gvars, avars>>

QNext ==
    \/ Enqueue
    \/ RetryFailed
    \/ ClearCompleted
    \/ CleanupOldItems
    \/ AdvanceTime
    \/ LoadQueueResumes
    \/ SaveCompletes
    \/ \E l \in LoopIds : FileInfoReturns(l)
    \/ \E l \in LoopIds : UploadReturns(l)
    \/ \E o \in Refs : RetryTimerFires(o)

(***************************************************************************)
(* AppController and RecorderService                                       *)
(*                                                                         *)
(* app holds the coordinator's state, the fields of the recorder and the   *)
(* asynchronous work in flight:                                            *)
(*   killSwitchEnabled, isRecording, lastRecordingUri   this.state         *)
(*   recording   recorder.recording: 0 (null) or the Audio.Recording       *)
(*               object, numbered in order of creation; the URI of a       *)
(*               recording is written as its number                        *)
(*   objs        per Audio.Recording object, "new", "prepared", "started"  *)
(*               or "done" (stopped and unloaded)                          *)
(*   bookmarks   recorder.bookmarks; an entry is written as the number of  *)
(*               the recording it was made in                              *)
(*   starts      recorder.start() calls in flight: where each one waits,   *)
(*               its retryCount and the object its native call acts on     *)
(*   stops       recorder.stop(onFinish) calls awaiting                    *)
(*               stopAndUnloadAsync(), with the object and the callback    *)
(*   enqueued    the arguments of the uploader.enqueue() calls made        *)
(* and, for observation only:                                              *)
(*   requests    the DoubleClick and Hold gestures taken while recording:  *)
(*               the recording, its bookmarks then, and the flag asked for *)
(*   last        the last gesture delivered, whether the recorder was      *)
(*               recording then and whether the kill switch was on         *)
(*   gestures, toggles, prepareFailures   counters for the bounds          *)
(* Code that runs between two native calls runs without interruption; a    *)
(* promise resolved by JavaScript code continues before the next native    *)
(* result or gesture is handled.  An Audio.Recording object reports        *)
(* _isDoneRecording = false from its creation until stopAndUnloadAsync()   *)
(* has completed on it; stopAndUnloadAsync() and startAsync() throw on an  *)
(* object that is not prepared, and otherwise resolve or throw; getURI()   *)
(* is null until the object is prepared.  The awaits of forceCleanup()     *)
(* follow each other without touching the recorder's fields and are taken  *)
(* as one.  Notifications, haptics, the transcription and the upload count *)
(* of the state are left out.                                              *)
(***************************************************************************)

PrepareAttempts == 3

GestureKinds == {"single", "double", "hold"}

AppInit ==
    [killSwitchEnabled |-> FALSE,
     isRecording |-> FALSE,
     lastRecordingUri |-> 0,
     recording |-> 0,
     objs |-> <<>>,
     bookmarks |-> <<>>,
     starts |-> EmptyBag,
     stops |-> EmptyBag,
     enqueued |-> <<>>,
     requests |-> <<>>,
     last |-> [kind |-> "none", recording |-> FALSE, killSwitch |-> FALSE],
     gestures |-> 0,
     toggles |-> 0,
     prepareFailures |-> 0]

One(x) == SetToBag({x})

\* get isRecording() of RecorderService
RecorderIsRecording(a) ==
    a.recording # 0 /\ a.objs[a.recording] # "done"

\* uploader.enqueue(fileUri, bookmarks, flagged), as the coordinator calls it
CallEnqueue(a, fileUri, marks, flagged) ==
    [a EXCEPT !.enqueued =
        Append(@, [filePath |-> fileUri, bookmarks |-> marks, flagged |-> flagged])]

\* The callbacks given to recorder.stop(): "resolve" is the one of
\* stopRecording(), followed by the rest of the coordinator method that
\* awaited it (then: "none", "save" or "flag"); "enqueue" is the one of
\* stopAndSaveRecording() and stopAndFlagRecording()
ResolveCb(then) == [kind |-> "resolve", then |-> then, flagged |-> FALSE]
EnqueueCb(flagged) == [kind |-> "enqueue", then |-> "none", flagged |-> flagged]

RECURSIVE RecorderStop(_, _)

\* onFinish(fileUri, bookmarks)
OnFinish(a, cb, fileUri, marks) ==
    IF cb.kind = "enqueue"
    THEN IF fileUri # 0 THEN CallEnqueue(a, fileUri, marks, cb.flagged) ELSE a
    ELSE LET a1 == [a EXCEPT !.isRecording = FALSE, !.lastRecordingUri = fileUri]
         IN IF cb.then # "none" /\ fileUri # 0
            THEN RecorderStop(a1, EnqueueCb(cb.then = "flag"))
            ELSE a1

\* recorder.stop(onFinish) up to its await
RecorderStop(a, cb) ==
    IF a.recording = 0 THEN OnFinish(a, cb, 0, <<>>)
    ELSE [a EXCEPT !.stops = @ (+) One([obj |-> a.recording, cb |-> cb])]

\* recorder.stop(onFinish) after stopAndUnloadAsync() has resolved
StopResolved(a, cb) ==
    IF a.recording = 0 THEN
        \* this.recording.getURI() throws: the catch block
        OnFinish([a EXCEPT !.bookmarks = <<>>], cb, 0, <<>>)
    ELSE LET uri == IF a.objs[a.recording] = "new" THEN 0 ELSE a.recording
         IN OnFinish([a EXCEPT !.recording = 0, !.bookmarks = <<>>],
                     cb, uri, a.bookmarks)

\* recorder.stop(onFinish) after stopAndUnloadAsync() has thrown
StopThrew(a, cb) ==
    OnFinish([a EXCEPT !.recording = 0, !.bookmarks = <<>>], cb, 0, <<>>)

\* recorder.mark()
Mark_none(a) == a
Mark(a) ==
    IF ~RecorderIsRecording(a) THEN a
    ELSE [a EXCEPT !.bookmarks = Append(@, a.recording)]

\* recorder.start() up to its first native call, and startRecording() when
\* start() returns false at once
RecorderStart(a) ==
    IF RecorderIsRecording(a) THEN a
    ELSE IF a.recording # 0
    THEN [a EXCEPT !.starts = @ (+) One([pc |-> "firstCleanup", retry |-> 0, obj |-> 0])]
    ELSE [a EXCEPT !.bookmarks = <<>>,
                   !.starts = @ (+) One([pc |-> "permission", retry |-> 0, obj |-> 0])]

\* this.recording = new Audio.Recording(); prepareToRecordAsync() is called
NewRecording(a, s) ==
    [a EXCEPT !.objs = Append(@, "new"),
              !.recording = Len(a.objs) + 1,
              !.starts = @ (+) One([s EXCEPT !.pc = "prepare",
                                             !.obj = Len(a.objs) + 1])]

\* The outer catch block of start(): forceCleanup(), then return false
CatchStart(a, s) ==
    IF a.recording # 0
    THEN [a EXCEPT !.starts = @ (+) One([s EXCEPT !.pc = "forceCleanup"])]
    ELSE [a EXCEPT !.bookmarks = <<>>]

\* The retry loop of start() after the clean-up of a failed prepare
AfterPrepareFailure(a, s) ==
    LET a1 == [a EXCEPT !.recording = 0] IN
    IF s.retry + 1 >= PrepareAttempts THEN CatchStart(a1, s)
    ELSE [a1 EXCEPT !.starts = @ (+) One([s EXCEPT !.pc = "retryWait",
                                                   !.retry = @ + 1])]

\* An object after stopAndUnloadAsync() has run on it
Unloaded(a, o) ==
    IF o # 0 /\ a.objs[o] \in {"prepared", "started"}
    THEN [a EXCEPT !.objs[o] = "done"] ELSE a

\* start() continues after the native call it awaited has finished with
\* `outcome`; a0 is the state without this call
StartContinues(a0, s, outcome) ==
    CASE s.pc = "firstCleanup" ->
            [a0 EXCEPT !.recording = 0, !.bookmarks = <<>>,
                       !.starts = @ (+) One([s EXCEPT !.pc = "permission"])]
      [] s.pc = "permission" ->
            IF outcome = "ok"
            THEN [a0 EXCEPT !.starts = @ (+) One([s EXCEPT !.pc = "audioMode"])]
            ELSE IF outcome = "denied" THEN a0
            ELSE CatchStart(a0, s)
      [] s.pc = "audioMode" ->
            IF outcome = "ok" THEN NewRecording(a0, s) ELSE CatchStart(a0, s)
      [] s.pc = "prepare" ->
            IF outcome = "ok"
            THEN LET a1 == [a0 EXCEPT !.objs[s.obj] = IF @ = "new" THEN "prepared" ELSE @]
                 IN IF a1.recording = 0 THEN CatchStart(a1, s)
                    ELSE [a1 EXCEPT !.starts = @ (+) One([s EXCEPT !.pc = "startAsync",
                                                                   !.obj = a1.recording])]
            ELSE LET a1 == [a0 EXCEPT !.prepareFailures = @ + 1]
                 IN IF a1.recording # 0
                    THEN [a1 EXCEPT !.starts = @ (+) One([s EXCEPT !.pc = "retryCleanup",
                                                                   !.obj = a1.recording])]
                    ELSE AfterPrepareFailure(a1, s)
      [] s.pc = "retryCleanup" -> AfterPrepareFailure(Unloaded(a0, s.obj), s)
      [] s.pc = "retryWait" -> NewRecording(a0, s)
      [] s.pc = "startAsync" ->
            IF outcome = "ok"
            THEN [a0 EXCEPT !.objs[s.obj] = "started", !.bookmarks = <<>>,
                            !.isRecording = TRUE]
            ELSE CatchStart(a0, s)
      [] s.pc = "forceCleanup" ->
            [Unloaded(a0, a0.recording) EXCEPT !.recording = 0, !.bookmarks = <<>>]

\* The outcomes the native call of a start() can have
StartOutcomes(a, s) ==
    CASE s.pc = "permission" -> {"ok", "denied", "throw"}
      [] s.pc = "audioMode" -> {"ok", "throw"}
      [] s.pc = "prepare" ->
            IF a.prepareFailures < MaxPrepareFailures THEN {"ok", "throw"}
            ELSE {"ok"}
      [] s.pc = "startAsync" ->
            IF a.objs[s.obj] = "prepared" THEN {"ok", "throw"} ELSE {"throw"}
      [] OTHER -> {"ok"}

\* onSingleClick(), onDoubleClick(), onHold()
OnGesture_noKillSwitch(a, kind) ==
    IF kind = "single"
    THEN IF RecorderIsRecording(a) THEN Mark(a) ELSE RecorderStart(a)
    ELSE a
OnGesture(a, kind) ==
    IF a.killSwitchEnabled THEN a
    ELSE IF kind = "single"
    THEN IF RecorderIsRecording(a) THEN Mark(a) ELSE RecorderStart(a)
    ELSE IF RecorderIsRecording(a)
    THEN RecorderStop([a EXCEPT !.requests =
                          Append(@, [recording |-> a.recording,
                                     bookmarks |-> a.bookmarks,
                                     flagged |-> kind = "hold"])],
                      ResolveCb(IF kind = "hold" THEN "flag" ELSE "save"))
    ELSE a

\* The button service delivers a gesture
Gesture ==
    /\ app.gestures < MaxGestures
    /\ \E kind \in GestureKinds :
          app' = OnGesture([app EXCEPT !.gestures = @ + 1,
                                       !.last = [kind |-> kind,
                                                 recording |-> RecorderIsRecording(app),
                                                 killSwitch |-> app.killSwitchEnabled]],
                           kind)
    /\ UNCHANGED <<gvars, qvars, pvars>>

\* setKillSwitch(enabled)
SetKillSwitch ==
    /\ app.toggles < MaxToggles
    /\ \E enabled \in BOOLEAN :
          LET a1 == [app EXCEPT !.toggles = @ + 1, !.killSwitchEnabled = enabled]
          IN app' = IF enabled /\ RecorderIsRecording(a1)
                    THEN RecorderStop(a1, ResolveCb("none")) ELSE a1
    /\ UNCHANGED <<gvars, qvars, pvars>>

\* The native call a start() awaits finishes
StartReturns ==
    /\ \E s \in BagToSet(app.starts) :
          \E outcome \in StartOutcomes(app, s) :
              app' = StartContinues([app EXCEPT !.starts = @ (-) One(s)], s, outcome)
    /\ UNCHANGED <<gvars, qvars, pvars>>

\* stopAndUnloadAsync() of a stop() resolves or throws
StopReturns ==
    /\ \E s \in BagToSet(app.stops) :
          LET a0 == [app EXCEPT !.stops = @ (-) One(s)]
              live == app.objs[s.obj] \in {"prepared", "started"}
          IN \/ /\ live
                /\ app' = StopResolved(Unloaded(a0, s.obj), s.cb)
             \/ app' = StopThrew(Unloaded(a0, s.obj), s.cb)
    /\ UNCHANGED <<gvars, qvars, pvars>>

ANext ==
    \/ Gesture
    \/ SetKillSwitch
    \/ StartReturns
    \/ StopReturns

(***************************************************************************)
(* UploadQueue.calculateRetryDelay (src/ui/HomeView.tsx:660-667)           *)
(*                                                                         *)
(* delayCall holds the inputs of one call, attempt and the value that      *)
(* Math.random() * 1000 takes (in whole milliseconds), and its result      *)
(* (NotCalled before the call); the configuration is the queue's.          *)
(***************************************************************************)

JitterCeilingMs == 1000
NotCalled == 0 - 1

RECURSIVE Pow2(_)
Pow2(n) == IF n = 0 THEN 1 ELSE 2 * Pow2(n - 1)

CalculateRetryDelay_uncapped(c, attempt, jitter) ==
    c.retryDelay * Pow2(attempt) + jitter
CalculateRetryDelay(c, attempt, jitter) ==
    LET baseDelay == c.retryDelay * Pow2(attempt)
        delay == baseDelay + jitter
    IN Min(delay, c.maxRetryDelay)

\* The configurations, attempt numbers and jitter values tried
DelayConfigs ==
    {[defaultConfig EXCEPT !.retryDelay = rd, !.maxRetryDelay = mx] :
        rd \in {500, 2000, 40000}, mx \in {5000, 30000}}
Attempts == 1 .. MaxAttempt
Jitters == {0, 1, JitterCeilingMs \div 2, JitterCeilingMs - 1}

NoDelayCall == [attempt |-> 0, jitter |-> 0, delay |-> NotCalled]

CalculateRetryDelayCall ==
    /\ delayCall.delay = NotCalled
    /\ delayCall' = [delayCall EXCEPT
                        !.delay = CalculateRetryDelay(uq.config, delayCall.attempt,
                                                      delayCall.jitter)]
    /\ UNCHANGED <<gvars, qvars, app, advert>>

(***************************************************************************)
(* FlicService.isFlicButton (src/services/FlicService.ts:151-190)          *)
(*                                                                         *)
(* advert holds the name and the localName of a scanned peripheral (each   *)
(* one may be absent) and what isFlicButton() returned for it ("unknown"   *)
(* before the call).                                                       *)
(***************************************************************************)

UpperCase == "ABCDEFGHIJKLMNOPQRSTUVWXYZ"
LowerCase == "abcdefghijklmnopqrstuvwxyz"

CharAt(s, i) == SubSeq(s, i, i)

ToLowerChar(c) ==
    IF \E i \in 1 .. Len(UpperCase) : CharAt(UpperCase, i) = c
    THEN CharAt(LowerCase, CHOOSE i \in 1 .. Len(UpperCase) : CharAt(UpperCase, i) = c)
    ELSE c

\* String.prototype.toLowerCase()
RECURSIVE ToLowerCase(_)
ToLowerCase(s) ==
    IF Len(s) = 0 THEN ""
    ELSE ToLowerChar(CharAt(s, 1)) \o ToLowerCase(SubSeq(s, 2, Len(s)))

\* String.prototype.includes()
Includes(s, sub) ==
    \E i \in 1 .. (Len(s) - Len(sub) + 1) : SubSeq(s, i, i + Len(sub) - 1) = sub

\* The tokens of the exclusion list
ExcludedTokens ==
    {"s22", "samsung", "iphone", "airpods", "watch", "xiao", "voicedsp",
     "seeed", "esp", "arduino"}

Absent == [some |-> FALSE, text |-> ""]
Some(s) == [some |-> TRUE, text |-> s]

\* device.name?.toLowerCase() || ''
LowerOrEmpty(n) == IF n.some THEN ToLowerCase(n.text) ELSE ""

IsFlicButton(device) ==
    LET name == LowerOrEmpty(device.name)
        localName == LowerOrEmpty(device.localName)
        isFlicName == Includes(name, "flic") \/ Includes(localName, "flic")
        isExcluded == \E t \in ExcludedTokens : Includes(name, t)
    IN isFlicName /\ ~isExcluded

\* The advertised names tried
NameTexts ==
    {"", "Flic 2", "FLIC", "flic", "F1ic", "Felicia", "Samsung Flic",
     "Flic Watch", "Galaxy S22", "iPhone", "ESP32 flic", "XIAO", "Flic-seeed"}
AdvertisedNames == {Absent} \cup {Some(s) : s \in NameTexts}

NoAdvert == [name |-> Absent, localName |-> Absent, accepted |-> "unknown"]

\* The scan callback asks isFlicButton(device)
ScanReports ==
    /\ advert.accepted = "unknown"
    /\ advert' = [advert EXCEPT !.accepted = BoolStr(IsFlicButton(advert))]
    /\ UNCHANGED <<gvars, qvars, app, delayCall>>

(***************************************************************************)
(* Specifications                                                          *)
(***************************************************************************)

\* The coordinator is idle and no function is checked on its own
Elsewhere == app = AppInit /\ delayCall = NoDelayCall /\ advert = NoAdvert

\* The gesture classifier alone; the upload queue is constructed and idle
GestureInit ==
    GInit /\ QInitWith(defaultConfig, [present |-> FALSE, items |-> <<>>]) /\ Elsewhere

GestureSpec == GestureInit /\ [][GNext]_vars

\* The upload queue alone; no notification arrives
QueueInit == GInit /\ QInit /\ Elsewhere

QueueSpec == QueueInit /\ [][QNext]_vars

\* The upload queue within one retention period of its start (no item is old
\* enough for cleanupOldItems to remove it), with every storage call, file
\* check and delivery request returning: a continuation that can run
\* eventually runs
QFairNext ==
    \/ Enqueue
    \/ RetryFailed
    \/ ClearCompleted
    \/ LoadQueueResumes
    \/ SaveCompletes
    \/ \E l \in LoopIds : FileInfoReturns(l)
    \/ \E l \in LoopIds : UploadReturns(l)
    \/ \E o \in Refs : RetryTimerFires(o)

QueueFairSpec ==
    /\ QueueInit
    /\ [][QFairNext]_vars
    /\ WF_vars(LoadQueueResumes)
    /\ WF_vars(SaveCompletes)
    /\ WF_vars(\E l \in LoopIds : FileInfoReturns(l))
    /\ WF_vars(\E l \in LoopIds : UploadReturns(l))

\* The same, with updateConfig() called while the queue works
QConfigNext ==
    \/ Enqueue
    \/ RetryFailed
    \/ ClearCompleted
    \/ UpdateConfig
    \/ LoadQueueResumes
    \/ SaveCompletes
    \/ \E l \in LoopIds : FileInfoReturns(l)
    \/ \E l \in LoopIds : UploadReturns(l)
    \/ \E o \in Refs : RetryTimerFires(o)

QueueConfigSpec ==
    /\ QueueInit
    /\ [][QConfigNext]_vars
    /\ WF_vars(LoadQueueResumes)
    /\ WF_vars(SaveCompletes)
    /\ WF_vars(\E l \in LoopIds : FileInfoReturns(l))
    /\ WF_vars(\E l \in LoopIds : UploadReturns(l))

\* The scanning and connection manager alone, on a platform with or without
\* a BleManager and with permissions granted or denied
FlicConnInit ==
    /\ ClassifierInit
    /\ \E ble \in BOOLEAN, granted \in BOOLEAN : flic = FlicInit(ble, granted)
    /\ QInitWith(defaultConfig, [present |-> FALSE, items |-> <<>>])
    /\ Elsewhere

FlicSpec == FlicConnInit /\ [][CNext]_vars

\* The same while disconnect() is not called, with time passing and every due
\* callback and every pending permission request running eventually
FlicFairNext ==
    \/ StartScanningCall
    \/ \E by \in Callers : PermissionReturns(by)
    \/ BleStateOn
    \/ IntervalFires
    \/ ScanFindsFlic
    \/ ScanError
    \/ ConnectReturns
    \/ DiscoverReturns
    \/ DeviceDisconnects
    \/ TimerFires
    \/ ConnTick

FlicFairSpec ==
    /\ FlicConnInit
    /\ [][FlicFairNext]_vars
    /\ WF_vars(ConnTick)
    /\ WF_vars(TimerFires)
    /\ WF_vars(IntervalFires)
    /\ WF_vars(\E by \in Callers : PermissionReturns(by))

\* The scanning and connection manager with a BleManager and permissions
\* granted, driven by the adapter and the reconnect interval alone (no
\* explicit startScanning()), with disconnect() called more than once
FlicRepeatInit ==
    /\ ClassifierInit
    /\ flic = FlicInit(TRUE, TRUE)
    /\ QInitWith(defaultConfig, [present |-> FALSE, items |-> <<>>])
    /\ Elsewhere

FlicRepeatNext ==
    \/ PermissionReturns("timer")
    \/ BleStateOn
    \/ IntervalFires
    \/ ScanFindsFlic
    \/ ConnectReturns
    \/ DiscoverReturns
    \/ DeviceDisconnects
    \/ DisconnectRepeatedly
    \/ CancelReturns
    \/ DeliverDisconnected
    \/ TimerFires
    \/ ConnTick

FlicRepeatSpec == FlicRepeatInit /\ [][FlicRepeatNext]_vars

\* The service one second after an explicit startScanning() has found a
\* button and the connection has succeeded: the notifications are subscribed
Subscribed ==
    [FlicInit(TRUE, TRUE) EXCEPT
        !.calls.startScanning = 1,
        !.ret = "true",
        !.device = TRUE,
        !.handler = TRUE,
        !.link = "up",
        !.reported = "true",
        !.monitoring = TRUE,
        !.timers = {Timer("scanTimeout", ScanWindowMs - SubscribeDelayMs)}]

\* The gesture classifier of a connected button, until the connection is
\* cancelled by disconnect() or lost, and for the seconds that follow (no
\* callback of the connection manager is due yet); notifications arrive only
\* while the monitor is subscribed
LinkedInit ==
    /\ ClassifierInit
    /\ flic = Subscribed
    /\ QInitWith(defaultConfig, [present |-> FALSE, items |-> <<>>])
    /\ Elsewhere

NotifyWhileMonitoring == flic.monitoring /\ Notify

LinkedNext ==
    \/ NotifyWhileMonitoring
    \/ HoldTimerFires
    \/ ClickTimerFires
    \/ Tick
    \/ DeviceDisconnects
    \/ DisconnectCall
    \/ CancelReturns
    \/ DeliverDisconnected

LinkedGestureSpec == LinkedInit /\ [][LinkedNext]_vars

\* The coordinator and the recorder alone, driven by gestures and the kill
\* switch
AppSpecInit ==
    /\ GInit
    /\ QInitWith(defaultConfig, [present |-> FALSE, items |-> <<>>])
    /\ app = AppInit
    /\ delayCall = NoDelayCall
    /\ advert = NoAdvert

AppSpec == AppSpecInit /\ [][ANext]_vars

\* calculateRetryDelay() alone, once for every input
RetryDelayInit ==
    /\ GInit
    /\ \E c \in DelayConfigs : QInitWith(c, [present |-> FALSE, items |-> <<>>])
    /\ app = AppInit
    /\ advert = NoAdvert
    /\ \E n \in Attempts, j \in Jitters :
          delayCall = [attempt |-> n, jitter |-> j, delay |-> NotCalled]

RetryDelaySpec == RetryDelayInit /\ [][CalculateRetryDelayCall]_vars

\* isFlicButton() alone, once for every peripheral
QualifyInit ==
    /\ GInit
    /\ QInitWith(defaultConfig, [present |-> FALSE, items |-> <<>>])
    /\ app = AppInit
    /\ delayCall = NoDelayCall
    /\ \E n \in AdvertisedNames, l \in AdvertisedNames :
          advert = [name |-> n, localName |-> l, accepted |-> "unknown"]

QualifySpec == QualifyInit /\ [][ScanReports]_vars

\* The upload queue when loadQueue() resumes before anything else is called
QueueLoadFirstSpec ==
    QueueInit /\ [][QNext /\ (uq.loadPending => ~uq'.loadPending)]_vars

\* The upload queue started on a store of two items of a previous session,
\* each one older than, exactly as old as or younger than the retention
\* period; the items are processed and the cleanup interval runs, nothing is
\* enqueued
AgedChoices(i) ==
    {[it EXCEPT !.createdAt = 0 - age] :
        it \in StoredChoices(defaultConfig, i),
        age \in {defaultConfig.cleanupAfterDays + 1,
                 defaultConfig.cleanupAfterDays, 1}}

CleanupInit ==
    /\ GInit
    /\ \E a \in AgedChoices(1), b \in AgedChoices(2) :
          QInitWith(defaultConfig, [present |-> TRUE, items |-> <<a, b>>])
    /\ Elsewhere

CleanupNext ==
    \/ LoadQueueResumes
    \/ CleanupOldItems
    \/ SaveCompletes
    \/ \E l \in LoopIds : FileInfoReturns(l)
    \/ \E l \in LoopIds : UploadReturns(l)
    \/ \E o \in Refs : RetryTimerFires(o)

CleanupSpec == CleanupInit /\ [][CleanupNext]_vars

GTypeOK ==
    /\ holdTimer \in {"null", "armed", "fired"}
    /\ clickTimer \in {"null", "armed", "fired"}
    /\ holdLeft \in 0 .. HoldMs
    /\ clickLeft \in 0 .. DecideMs
    /\ sinceLastClick \in 0 .. ElapsedCap
    /\ clickCount \in 0 .. MaxNotifications

(***************************************************************************)
(* Claims on the gesture classifier                                        *)
(***************************************************************************)

\* C1: a press held for at least T_hold (1000 ms) yields exactly one Hold for
\* that press, and no SingleClick or DoubleClick is decided from the release
\* that ends such a press.
C1_HoldSuppressesClicks ==
    /\ (obs.pressed /\ obs.pressDur > HoldMs) => obs.holdsThisPress = 1
    /\ obs.clicksFromHeld = 0

\* C2: two releases less than T_double (400 ms) apart, the first one not within
\* T_double of an earlier release, with no third release within T_decide
\* (250 ms) of the second, yield zero SingleClicks and, once T_decide has passed
\* after the second release, exactly one DoubleClick.
C2_PairYieldsOneDouble ==
    obs.pairPhase = 2 =>
        /\ obs.pairSingles = 0
        /\ obs.pairDoubles <= 1
        /\ (sinceLastClick > DecideMs => obs.pairDoubles = 1)

\* C3: as long as the notifications are short press/release pairs (each press
\* shorter than T_hold) whose releases are at least T_double apart, no Hold and
\* no DoubleClick is emitted, and one SingleClick has been emitted for every
\* release whose decision timer is no longer pending.
C3_OneSinglePerSpacedPair ==
    obs.wellSpaced =>
        /\ emitted.hold = 0
        /\ emitted.double = 0
        /\ emitted.single = obs.ups - (IF clickTimer = "armed" THEN 1 ELSE 0)

\* Two well spaced short presses have each produced their SingleClick.
C3_Witness ==
    /\ obs.wellSpaced
    /\ obs.ups = 2
    /\ emitted.single = 2
    /\ clickTimer = "fired"

(***************************************************************************)
(* Claims on the upload queue                                              *)
(***************************************************************************)

Last(q) == q[Len(q)]
Allocated == {o \in Refs : uq.heap[o].status # "free"}
\* Objects that enqueue() created in this session
Enqueued == {o \in Allocated : uq.heap[o].id > MaxStored}
ActiveLoops == {l \in LoopIds : uq.loops[l].pc # "idle"}
Uploading == {o \in Refs : uq.heap[o].status = "uploading"}

\* C4: after a failed attempt that leaves the item Pending, the next attempt
\* of that item starts only after its backoff delay has elapsed: no item is
\* InFlight while a retry timer scheduled by its last failure is still pending.
C4_RetryWaitsForBackoff ==
    \A o \in Refs : uq.heap[o].status = "uploading" => uq.timers[o] = 0

\* C5: in every reachable state at most one item is InFlight ('uploading');
\* counted over all item objects, those of this.queue included.
C5_SingleInFlight ==
    /\ Cardinality(Uploading) <= 1
    /\ Cardinality({i \in 1 .. Len(uq.queue) :
                        uq.heap[uq.queue[i]].status = "uploading"}) <= 1

\* An item is InFlight while another item waits in the queue behind work in
\* flight (a save of enqueue, retryFailed or clearCompleted not yet completed).
C5_Witness ==
    /\ \E o \in Uploading : InQueue(uq, o)
    /\ \E p \in Refs : InQueue(uq, p) /\ uq.heap[p].status = "pending"
    /\ Len(uq.writes) >= 2

\* C6: at most one processing loop runs at a time, isProcessing is true exactly
\* while a loop runs, and the item a running loop works on is the only one a
\* loop has selected.
C6_SingleLoop ==
    /\ Cardinality(ActiveLoops) <= 1
    /\ uq.isProcessing <=> ActiveLoops # {}
    /\ \A o \in Uploading : \E l \in ActiveLoops : uq.loops[l].item = o

\* loadQueue() called processQueue() while a loop was running on an item that
\* was enqueued before the load: the loop still is the only one.
C6_Witness ==
    /\ ~uq.loadPending
    /\ \E o \in Uploading : ~InQueue(uq, o)
    /\ \E p \in Refs : InQueue(uq, p) /\ uq.heap[p].status = "pending"
    /\ Cardinality(ActiveLoops) = 1

\* C7: an item enqueued for an existing artifact whose attempts fail twice and
\* then succeed has gone through exactly Pending, InFlight, Pending, InFlight,
\* Pending, InFlight, Completed, and its retry count is 2.
C7_FailFailSucceed ==
    \A o \in Enqueued :
        uq.outs[o] = <<"fail", "fail", "ok">> =>
            /\ uq.hist[o] = <<"pending", "uploading", "pending", "uploading",
                              "pending", "uploading", "completed">>
            /\ uq.heap[o].retries = 2
            /\ uq.heap[o].status = "completed"

C7_Witness ==
    \E o \in Enqueued :
        /\ uq.outs[o] = <<"fail", "fail", "ok">>
        /\ uq.heap[o].status = "completed"

\* C8: when the artifact of the selected item does not exist at attempt time,
\* the item goes InFlight -> Failed in that attempt with its retry count
\* unchanged, no delivery request is made, no retry timer is scheduled, and the
\* item leaves Failed only through retryFailed(); a newly enqueued item whose
\* first attempt finds no artifact has the history Pending, InFlight, Failed
\* with retry count 0.
C8_State ==
    \A o \in Refs :
        (Len(uq.outs[o]) > 0 /\ Last(uq.outs[o]) = "missing") =>
            /\ \/ /\ uq.heap[o].status = "failed"
                  /\ uq.reqs[o] = 0
                  /\ Len(uq.hist[o]) >= 2
                  /\ uq.hist[o][Len(uq.hist[o]) - 1] = "uploading"
               \/ /\ uq.calls.retryFailed > 0
                  /\ uq.heap[o].status \in {"pending", "uploading"}
            /\ (o \in Enqueued /\ uq.outs[o] = <<"missing">>
                    /\ uq.heap[o].status = "failed") =>
                   /\ uq.hist[o] = <<"pending", "uploading", "failed">>
                   /\ uq.heap[o].retries = 0

C8_Step ==
    \A o \in Refs :
        /\ (uq'.outs[o] # uq.outs[o] /\ Last(uq'.outs[o]) = "missing") =>
              /\ uq.heap[o].status = "uploading"
              /\ uq'.heap[o].status = "failed"
              /\ uq'.heap[o].retries = uq.heap[o].retries
              /\ uq'.timers = uq.timers
              /\ uq.reqs[o] = 0
              /\ uq'.reqs = uq.reqs
        /\ (/\ Len(uq.outs[o]) > 0
            /\ Last(uq.outs[o]) = "missing"
            /\ uq.heap[o].status = "failed"
            /\ uq'.heap[o].status # "failed") =>
              /\ uq'.heap[o].status = "pending"
              /\ uq'.calls.retryFailed = uq.calls.retryFailed + 1

C8_MissingArtifactFailsAtOnce == []C8_State /\ [][C8_Step]_vars

C8_Witness ==
    \E o \in Enqueued :
        /\ uq.outs[o] = <<"missing">>
        /\ uq.heap[o].status = "failed"
        /\ uq.loops[1].pc = "idle"
        /\ uq.writes = <<>>

\* C9: an item persisted as 'uploading' is, once loadQueue() has run, an item
\* of the in-memory queue; until the loop selects it, it is Pending, eligible,
\* still in the queue, and a loop is running; it is InFlight only while a loop
\* works on it; and it is eventually selected.
RecoveredFor(it) == {o \in uq.recovered : uq.heap[o].id = it.id}

C9_State ==
    ~uq.loadPending =>
        /\ \A i \in 1 .. Len(uq.loaded.items) :
              uq.loaded.items[i].status = "uploading" =>
                  RecoveredFor(uq.loaded.items[i]) # {}
        /\ \A o \in uq.recovered :
              /\ Len(uq.hist[o]) = 2 =>
                    /\ uq.heap[o].status = "pending"
                    /\ Eligible(uq, o)
                    /\ InQueue(uq, o)
                    /\ uq.isProcessing
                    /\ ActiveLoops # {}
              /\ uq.heap[o].status = "uploading" =>
                    \E l \in ActiveLoops : uq.loops[l].item = o
              /\ uq.heap[o].status \in {"pending", "uploading"} => InQueue(uq, o)

C9_Selected(o) == Len(uq.hist[o]) >= 3 /\ uq.hist[o][3] = "uploading"

C9_RecoveredIsProcessed ==
    /\ []C9_State
    /\ \A o \in Refs : (o \in uq.recovered) ~> C9_Selected(o)

C9_Witness ==
    \E o \in uq.recovered :
        /\ C9_Selected(o)
        /\ \E p \in Enqueued : uq.heap[p].status # "pending"

\* C10 as stated: the retry count of an item never decreases, whatever the
\* operation.
C10_RetriesNeverDecrease ==
    [][\A o \in Allocated : uq'.heap[o].retries >= uq.heap[o].retries]_vars

\* C10 as amended: the retry count of an item never decreases, except that
\* retryFailed() sets the count of a Failed item to 0 (with the item Pending).
C10_RetriesDecreaseOnlyByRetryFailed ==
    [][\A o \in Allocated :
          \/ uq'.heap[o].retries >= uq.heap[o].retries
          \/ /\ uq.heap[o].status = "failed"
             /\ uq'.heap[o].status = "pending"
             /\ uq'.heap[o].retries = 0
             /\ uq'.calls.retryFailed = uq.calls.retryFailed + 1]_vars

\* retryFailed() has reset an item that failed after maxRetries attempts.
C10_Witness ==
    \E o \in Allocated :
        /\ uq.calls.retryFailed = 1
        /\ Len(uq.outs[o]) >= uq.config.maxRetries
        /\ uq.hist[o][Len(uq.hist[o]) - 1] = "failed"
        /\ Last(uq.hist[o]) = "pending"
        /\ uq.heap[o].retries = 0

\* C11: every item that is not Failed has retries <= maxRetries, and every
\* Pending item has retries < maxRetries (it is eligible for selection), after
\* any sequence of enqueue, processing, retryFailed, updateConfig and reload.
C11_RetriesWithinLimit ==
    \A o \in Refs :
        /\ uq.heap[o].status \in {"pending", "uploading", "completed"} =>
               uq.heap[o].retries <= uq.config.maxRetries
        /\ uq.heap[o].status = "pending" => Eligible(uq, o)

\* C12: an item becomes Failed through a delivery failure only with its
\* maxRetries-th failed attempt; a loop works only on the item it has set
\* InFlight; a Completed item never changes its status, and a Failed item
\* leaves Failed only by retryFailed(), which makes it Pending.
FailCount(o) ==
    Cardinality({i \in 1 .. Len(uq.outs[o]) : uq.outs[o][i] = "fail"})

C12_State ==
    /\ \A o \in Enqueued :
          (/\ uq.calls.retryFailed = 0
           /\ uq.heap[o].status = "failed"
           /\ Last(uq.outs[o]) = "fail") => FailCount(o) = uq.config.maxRetries
    /\ \A l \in ActiveLoops :
          uq.loops[l].pc \in {"saveStart", "check", "fetch"} =>
              uq.heap[uq.loops[l].item].status = "uploading"

C12_Step ==
    \A o \in Allocated :
        /\ (/\ uq'.heap[o].status = "failed"
            /\ uq'.outs[o] # uq.outs[o]
            /\ Last(uq'.outs[o]) = "fail") =>
              /\ uq.heap[o].status = "uploading"
              /\ uq'.heap[o].retries = uq.heap[o].retries + 1
              /\ uq'.heap[o].retries = uq.config.maxRetries
        /\ uq.heap[o].status = "completed" => uq'.heap[o].status = "completed"
        /\ (uq.heap[o].status = "failed" /\ uq'.heap[o].status # "failed") =>
              /\ uq'.heap[o].status = "pending"
              /\ uq'.calls.retryFailed = uq.calls.retryFailed + 1

C12_TerminalIsFinal == []C12_State /\ [][C12_Step]_vars

\* An enqueued item has failed with its third failed attempt, another item is
\* Completed, and the loop has ended.
C12_Witness ==
    /\ \E o \in Enqueued :
          /\ uq.heap[o].status = "failed"
          /\ uq.outs[o] = <<"fail", "fail", "fail">>
    /\ \E p \in Allocated : uq.heap[p].status = "completed"
    /\ ActiveLoops = {}
    /\ uq.writes = <<>>

\* C13: every enqueued item eventually reaches Completed or Failed, given that
\* every storage call, file check and delivery attempt returns, whatever
\* enqueue / retryFailed / clearCompleted calls are interleaved.
Terminal(o) == uq.heap[o].status \in {"completed", "failed"}

C13_EveryItemSettles ==
    \A o \in Refs : (o \in Enqueued) ~> Terminal(o)

\* The same for the items that are in this.queue once loadQueue() has run
C13_QueuedItemSettles ==
    \A o \in Refs :
        (o \in Enqueued /\ ~uq.loadPending /\ InQueue(uq, o)) ~> Terminal(o)

\* An item object that is Pending and not in this.queue once loadQueue() has
\* run is never written again and never enters the queue: no operation of the
\* queue reaches it.
LostItem(o) ==
    /\ o \in Allocated
    /\ ~uq.loadPending
    /\ ~InQueue(uq, o)
    /\ uq.heap[o].status = "pending"

LostItemStaysPending ==
    [][\A o \in Refs :
          LostItem(o) => (uq'.heap[o] = uq.heap[o] /\ ~InQueue(uq', o))]_vars

\* C14: clearCompleted() removes exactly the Completed items of the queue,
\* returns their number, and leaves every Pending, InFlight and Failed item in
\* the queue, in the same relative order and with unchanged fields, also while
\* an item is InFlight.
PosIn(q, o) == CHOOSE i \in 1 .. Len(q) : q[i] = o

WasReset(o) ==
    /\ Len(uq.hist[o]) >= 2
    /\ uq.hist[o][Len(uq.hist[o]) - 1] = "failed"
    /\ Last(uq.hist[o]) = "pending"

C15_Step ==
    /\ uq'.calls.retryFailed # uq.calls.retryFailed =>
          /\ \A o \in Refs :
                IF InQueue(uq, o) /\ uq.heap[o].status = "failed"
                THEN uq'.heap[o] = [uq.heap[o] EXCEPT !.status = "pending",
                                                      !.retries = 0]
                ELSE uq'.heap[o] = uq.heap[o]
          /\ uq'.queue = uq.queue
          /\ Last(uq'.writes).data = Snapshot(uq')
          /\ Last(uq'.writes).cont.kind = "retryFailed"
          /\ Last(uq'.writes).cont.any =
                (\E o \in Refs : InQueue(uq, o) /\ uq.heap[o].status = "failed")
    /\ (/\ uq.writes # <<>>
        /\ uq'.writes = Tail(uq.writes)
        /\ Head(uq.writes).cont.kind = "retryFailed"
        /\ Head(uq.writes).cont.any
        /\ ~uq.isProcessing) => (uq'.isProcessing \/ FindPending(uq') = 0)

C15_RetryFailedResets == [][C15_Step]_vars

\* Every item that is reset in this.queue after loadQueue() has run is
\* attempted again
C15_ResetAfterLoadIsAttempted ==
    \A o \in Refs :
        (WasReset(o) /\ ~uq.loadPending /\ InQueue(uq, o))
            ~> (uq.heap[o].status = "uploading")

\* C16: enqueue(path, bookmarks, flagged) appends exactly one new item,
\* Pending with retries 0 and the given path, bookmarks and flag, at the end of
\* the queue and writes the collection; when the write has completed it starts
\* the loop if none runs and returns the id of the item, before any attempt
\* of that item has finished.
C16_Step ==
    /\ uq'.calls.enqueue # uq.calls.enqueue =>
          LET o == Last(uq'.queue)
              it == uq'.heap[o]
          IN /\ uq'.queue = Append(uq.queue, o)
             /\ uq.heap[o].status = "free"
             /\ it.status = "pending"
             /\ it.retries = 0
             /\ [path |-> it.path, bookmarks |-> it.bookmarks,
                 flagged |-> it.flagged] \in EnqueueArgs
             /\ \A p \in Refs \ {o} :
                    uq'.heap[p] = uq.heap[p] /\ uq.heap[p].id # it.id
             /\ Last(uq'.writes).data = Snapshot(uq')
             /\ Last(uq'.writes).cont.ret = it.id
             /\ uq'.loops = uq.loops
             /\ uq'.isProcessing = uq.isProcessing
             /\ uq'.returned = uq.returned
    /\ uq'.returned # uq.returned =>
          LET w == Head(uq.writes)
          IN /\ w.cont.kind = "enqueue"
             /\ uq'.returned = uq.returned \cup {w.cont.ret}
             /\ storage' = [present |-> TRUE, items |-> w.data]
             /\ \E i \in 1 .. Len(w.data) : w.data[i].id = w.cont.ret
             /\ uq.isProcessing => uq'.loops = uq.loops
             /\ ~uq.isProcessing => (uq'.isProcessing \/ FindPending(uq') = 0)
             /\ \A o \in Refs : uq.heap[o].id = w.cont.ret => uq'.outs[o] = <<>>

C16_EnqueueAppendsAndReturns == [][C16_Step]_vars

\* enqueue() has returned the id of its item while the delivery request for
\* that item is still in flight.
C16_Witness ==
    \E o \in Enqueued :
        /\ uq.heap[o].id \in uq.returned
        /\ uq.heap[o].bookmarks # <<>>
        /\ \E l \in ActiveLoops : uq.loops[l] = [pc |-> "fetch", item |-> o]

(***************************************************************************)
(* Claims on scanning and connection                                       *)
(***************************************************************************)

\* C17: once an explicit disconnect() has returned, and until startScanning()
\* is called again, the reconnect interval stays cancelled and no scan started
\* by the reconnect interval is running, whatever disconnection handlers or
\* delayed callbacks run in the meantime (checked here for the runs in which
\* no PoweredOn state is reported).
C17_DisconnectSuspendsReconnect ==
    (flic.suspended /\ flic.cancels = 0 /\ flic.calls.bleOn = 0) =>
        /\ ~flic.reconnectInterval
        /\ ~(flic.nativeScans > 0 /\ flic.scanBy = "timer")

\* C18: startScanning() returns false and starts no device scan when there is
\* no BLE manager or a permission is denied (isScanning stays false); when
\* requestPermissions() resolves while a scan is active the call returns true
\* and starts no second scan, also when two calls overlap across the
\* permission request.
C18_State ==
    /\ (~flic.bleManager \/ ~flic.granted) =>
          /\ ~flic.isScanning
          /\ flic.nativeScans = 0
          /\ flic.ret # "true"
          /\ \A t \in flic.timers : t.kind # "scanTimeout"
    /\ flic.nativeScans <= 1

C18_Step ==
    /\ (flic'.calls.startScanning # flic.calls.startScanning /\ ~flic.bleManager) =>
          /\ flic'.ret = "false"
          /\ flic'.permReqs = flic.permReqs
    /\ \A by \in Callers :
          flic'.permReqs[by] < flic.permReqs[by] =>
              /\ by = "explicit" =>
                    flic'.ret = IF flic.granted THEN "true" ELSE "false"
              /\ (flic.isScanning \/ ~flic.granted) =>
                    /\ flic'.nativeScans = flic.nativeScans
                    /\ flic'.isScanning = flic.isScanning
                    /\ flic'.timers = flic.timers
                    /\ flic'.scanBy = flic.scanBy
                    /\ flic'.scanAge = flic.scanAge
              /\ (~flic.isScanning /\ flic.granted) =>
                    /\ flic'.nativeScans = 1
                    /\ flic'.isScanning
                    /\ flic'.scanBy = by

C18_StartScanningGuards == []C18_State /\ [][C18_Step]_vars

\* Two overlapping calls have both returned; the explicit one returned true and
\* the only scan running is the one the reconnect interval's call started.
C18_Witness ==
    /\ flic.overlap
    /\ flic.permReqs = [explicit |-> 0, timer |-> 0]
    /\ flic.ret = "true"
    /\ flic.nativeScans = 1
    /\ flic.scanBy = "timer"
    /\ flic.scanAge = 0

\* C19: at most one device scan is active at any time, and isScanning is true
\* exactly while one is; the reconnect interval calls startScanning() only when
\* no peripheral handle is held and isScanning is false.
C19_State ==
    /\ flic.nativeScans <= 1
    /\ flic.isScanning <=> flic.nativeScans = 1
    /\ flic.isScanning <=> flic.scanBy \in Callers

C19_Step ==
    flic'.permReqs.timer > flic.permReqs.timer =>
        /\ ~flic.device
        /\ ~flic.isScanning
        /\ flic.nativeScans = 0
        /\ flic.intervalLeft = 0

C20_State ==
    flic.nativeScans > 0 =>
        /\ flic.scanAge <= ScanWindowMs
        /\ Timer("scanTimeout", ScanWindowMs - flic.scanAge) \in flic.timers

C20_ScanExpiresAndRestarts ==
    /\ []C20_State
    /\ flic.isScanning ~> (~flic.isScanning /\ flic.nativeScans = 0)
    /\ <>[](flic.reconnectInterval /\ ~flic.device /\ flic.granted)
           => []<>(flic.isScanning /\ flic.scanAge = 0)

\* A scan has expired and the reconnect interval has started the next one.
C20_Witness ==
    /\ flic.expired
    /\ flic.calls.startScanning = 0
    /\ flic.isScanning
    /\ flic.scanBy = "timer"
    /\ flic.scanAge = 0
    /\ flic.timers = {Timer("scanTimeout", ScanWindowMs)}

\* C21: whenever a connection attempt fails (connect() or the discovery
\* throws) or a connected peripheral disconnects by itself, the handle is
\* cleared, onConnectionChange(false) is reported and startAutoReconnect() is
\* scheduled after a fixed delay (3 s after a failed attempt, 2 s after a
\* disconnection); this holds at every failure, whatever happened before: no
\* count of earlier failures enters.
C21_ConnectThrew ==
    flic'.connecting < flic.connecting /\ flic'.discovering = flic.discovering

C21_DiscoverThrew ==
    flic'.discovering < flic.discovering /\ flic'.reported # "true"

C21_Dropped ==
    /\ flic.link = "up"
    /\ flic'.link = "down"
    /\ flic'.calls.disconnect = flic.calls.disconnect

C21_Step ==
    /\ (C21_ConnectThrew \/ C21_DiscoverThrew) =>
          /\ ~flic'.device
          /\ flic'.reported = "false"
          /\ flic'.timers = flic.timers \cup {Timer("reconnect", ConnectRetryMs)}
    /\ C21_Dropped =>
          /\ ~flic'.device
          /\ flic'.reported = "false"
          /\ flic'.timers = flic.timers \cup {Timer("reconnect", DisconnectRetryMs)}

\* A scheduled startAutoReconnect() that is due runs next and leaves the
\* reconnect interval set
C21_Scheduled ==
    \A t \in flic.timers :
        (t.kind = "reconnect" /\ t.left = 0 /\ flic'.timers = flic.timers \ {t})
            => flic'.reconnectInterval

C21_FailureSchedulesReconnect == [][C21_Step /\ C21_Scheduled]_vars

\* Without any explicit startScanning() call: an attempt has succeeded, the
\* peripheral has disconnected, and an attempt has failed, all a moment ago;
\* the three delayed callbacks are pending.
C21_Witness ==
    /\ flic.calls.startScanning = 0
    /\ ~flic.device
    /\ flic.reported = "false"
    /\ {Timer("subscribe", SubscribeDelayMs),
        Timer("reconnect", DisconnectRetryMs),
        Timer("reconnect", ConnectRetryMs)} \subseteq flic.timers

(***************************************************************************)
(* Claims on the handling of notifications                                 *)
(***************************************************************************)

\* C22: a notification whose first byte is none of the five known codes, or
\* whose payload cannot be decoded, is handled as a release: it emits no
\* gesture by itself, cancels the hold timer, updates the click counter as a
\* release does and arms the decision timer; it is not dropped.
C22_ReleasePath ==
    /\ emitted' = emitted
    /\ holdTimer' = "null"
    /\ clickCount' = IF WithinDoubleWindow(sinceLastClick) THEN clickCount + 1 ELSE 1
    /\ sinceLastClick' = 0
    /\ clickTimer' = "armed"
    /\ clickLeft' = DecideMs

C22_UnknownIsRelease ==
    [][obs'.fallbacks # obs.fallbacks => C22_ReleasePath]_vars

(***************************************************************************)
(* Claims on the coordinator                                               *)
(***************************************************************************)

IsPrefix(p, q) == Len(p) <= Len(q) /\ SubSeq(q, 1, Len(p)) = p

\* C23: a DoubleClick taken while recording (kill switch off) stops the
\* recording and enqueues exactly one item for it, with flagged = false and the
\* recording's bookmarks; a Hold does the same with flagged = true.  Stated for
\* the runs with one such gesture, once its stop has delivered the recording's
\* URI to the coordinator and no stop is in flight.
C23_StopEnqueuesOnce ==
    (/\ Len(app.requests) = 1
     /\ app.stops = EmptyBag
     /\ app.lastRecordingUri = app.requests[1].recording) =>
        /\ app.recording # app.requests[1].recording
        /\ Len(app.enqueued) = 1
        /\ app.enqueued[1].filePath = app.requests[1].recording
        /\ app.enqueued[1].flagged = app.requests[1].flagged
        /\ IsPrefix(app.requests[1].bookmarks, app.enqueued[1].bookmarks)

\* What the coordinator does instead: the recording is stopped, and nothing is
\* ever handed to the upload queue
C23_NothingIsEnqueued == app.enqueued = <<>>

\* C24: while the kill switch is enabled a gesture changes nothing: no start,
\* no bookmark, no stop, no enqueue, no change of the coordinator's state.
C24_KillSwitchIgnoresGestures ==
    [][(app'.gestures # app.gestures /\ app.killSwitchEnabled) =>
          app' = [app EXCEPT !.gestures = app'.gestures, !.last = app'.last]]_vars

\* A DoubleClick has been ignored while the recorder was recording with the
\* kill switch on; the recording and its bookmark are still there.
C24_Witness ==
    /\ app.last = [kind |-> "double", recording |-> TRUE, killSwitch |-> TRUE]
    /\ app.killSwitchEnabled
    /\ RecorderIsRecording(app)
    /\ app.objs[app.recording] = "started"
    /\ Len(app.bookmarks) = 1
    /\ app.requests = <<>>

\* C25: with the kill switch off, a SingleClick while the recorder is idle
\* calls start() (one more start is in flight, nothing is stopped or
\* enqueued); a SingleClick while it is recording appends one bookmark and
\* neither stops the recording nor enqueues anything.
C25_Step ==
    (app'.gestures # app.gestures /\ app'.last.kind = "single"
        /\ ~app.killSwitchEnabled) =>
        /\ app'.stops = app.stops
        /\ app'.enqueued = app.enqueued
        /\ app'.requests = app.requests
        /\ app'.recording = app.recording
        /\ app'.isRecording = app.isRecording
        /\ IF RecorderIsRecording(app)
           THEN /\ app'.bookmarks = Append(app.bookmarks, app.recording)
                /\ app'.starts = app.starts
           ELSE /\ BagCardinality(app'.starts) = BagCardinality(app.starts) + 1
                /\ \E s \in BagToSet(app'.starts) :
                      /\ s.pc = "permission"
                      /\ app'.starts = app.starts (+) One(s)

\* A start() that comes to its end with every native call succeeding leaves
\* an object that records, and the coordinator's isRecording set
C25_Started ==
    \A s \in BagToSet(app.starts) :
        (s.pc = "startAsync"
            /\ app.objs[s.obj] = "prepared"
            /\ app'.starts = app.starts (-) One(s)
            /\ BagCardinality(app'.starts) < BagCardinality(app.starts)
            /\ app'.objs[s.obj] = "started")
        => app'.isRecording

C25_SingleClickStartsOrMarks == [][C25_Step /\ C25_Started]_vars

\* A first SingleClick has started the recording and a second one has added
\* a bookmark to it; nothing was stopped or enqueued.
C25_Witness ==
    /\ app.gestures = 2
    /\ app.last = [kind |-> "single", recording |-> TRUE, killSwitch |-> FALSE]
    /\ app.isRecording
    /\ app.recording = 1
    /\ app.objs = <<"started">>
    /\ app.bookmarks = <<1>>
    /\ app.starts = EmptyBag
    /\ app.stops = EmptyBag
    /\ app.enqueued = <<>>

(***************************************************************************)
(* Claims on the retry delay, the cleanup and the persisted queue          *)
(***************************************************************************)

\* C26: for every attempt number n >= 1, every configuration and every jitter
\* value, the delay calculateRetryDelay(n) returns is at most maxRetryDelay
\* and at least retryDelay * 2^(n-1).
C26_DelayWithinBounds ==
    delayCall.delay # NotCalled =>
        /\ delayCall.delay <= uq.config.maxRetryDelay
        /\ delayCall.delay >= uq.config.retryDelay * Pow2(delayCall.attempt - 1)

\* C26, amended: the delay is at most maxRetryDelay and at least the smaller
\* of maxRetryDelay and retryDelay * 2^n; it is at least retryDelay * 2^(n-1)
\* whenever that value does not exceed maxRetryDelay.
C26_DelayIsCappedBackoff ==
    delayCall.delay # NotCalled =>
        LET c == uq.config
            n == delayCall.attempt
        IN /\ delayCall.delay <= c.maxRetryDelay
           /\ delayCall.delay >= Min(c.maxRetryDelay, c.retryDelay * Pow2(n))
           /\ c.retryDelay * Pow2(n - 1) <= c.maxRetryDelay =>
                 delayCall.delay >= c.retryDelay * Pow2(n - 1)

\* The default delays, fifth attempt: the cap is below retryDelay * 2^(n-1)
\* and is what the call returns.
C26_Witness ==
    /\ uq.config.retryDelay = defaultConfig.retryDelay
    /\ uq.config.maxRetryDelay = defaultConfig.maxRetryDelay
    /\ delayCall.attempt = 5
    /\ uq.config.retryDelay * Pow2(delayCall.attempt - 1) > uq.config.maxRetryDelay
    /\ delayCall.delay = uq.config.maxRetryDelay

\* C27: a cleanup removes the Completed and Failed items whose age exceeds the
\* retention period and nothing else: no Pending or InFlight item whatever its
\* age, no terminal item younger than the retention period; the items kept are
\* unchanged and in order, the queue is rewritten, and this does not depend on
\* whether the files of the removed items could be deleted.
C27_Step ==
    Len(uq'.queue) < Len(uq.queue) =>
        /\ \A i \in 1 .. Len(uq.queue) :
              LET o == uq.queue[i]
                  age == now - uq.heap[o].createdAt
                  terminal == uq.heap[o].status \in {"completed", "failed"}
                  removed == ~InQueue(uq', o)
              IN /\ removed => (terminal /\ age >= uq.config.cleanupAfterDays)
                 /\ (terminal /\ age > uq.config.cleanupAfterDays) => removed
                 /\ (terminal /\ age < uq.config.cleanupAfterDays) => ~removed
                 /\ ~terminal => ~removed
        /\ uq'.queue = FilterQueue(uq.queue, {o \in Refs : InQueue(uq', o)})
        /\ uq'.heap = uq.heap
        /\ uq'.writes = Append(uq.writes, [data |-> Snapshot(uq'), cont |-> Cont("none")])
        /\ files' \subseteq files

C27_CleanupRemovesOldTerminal == [][C27_Step]_vars

\* A terminal item older than the retention period has been removed while its
\* file is still on disk, and an unfinished item just as old is still queued.
C27_Witness ==
    \E o \in Refs, p \in Refs :
        /\ ~uq.loadPending
        /\ uq.heap[o].status \in {"completed", "failed"}
        /\ now - uq.heap[o].createdAt > uq.config.cleanupAfterDays
        /\ ~InQueue(uq, o)
        /\ uq.heap[o].path \in files
        /\ InQueue(uq, p)
        /\ uq.heap[p].status \in {"pending", "uploading"}
        /\ now - uq.heap[p].createdAt > uq.config.cleanupAfterDays

\* C28: whenever no operation of the queue is in progress (the load has
\* completed, no save is in flight, no processing loop runs) the persisted
\* collection equals the in-memory queue.
Persisted == IF storage.present THEN storage.items ELSE <<>>

Quiescent ==
    /\ ~uq.loadPending
    /\ uq.writes = <<>>
    /\ ~uq.isProcessing
    /\ \A l \in LoopIds : uq.loops[l].pc = "idle"

C28_PersistedMirrorsMemory == Quiescent => Persisted = Snapshot(uq)

(***************************************************************************)
(* Claims on permissions and device qualification                          *)
(***************************************************************************)

\* C29: when the permission is denied no retry loop is started: from some time
\* on, the reconnect interval no longer calls startScanning() (which requests
\* the permissions again).
C29_NoRetryAfterDenial ==
    ~flic.granted => <>[](flic.permReqs.timer = 0)

\* C30: a peripheral is accepted only if its name or its localName contains
\* "flic" (whatever the case) and neither of them contains a token of the
\* exclusion list.
C30_ExcludedNeverAccepted ==
    advert.accepted = "true" =>
        LET name == LowerOrEmpty(advert.name)
            localName == LowerOrEmpty(advert.localName)
        IN /\ Includes(name, "flic") \/ Includes(localName, "flic")
           /\ \A t \in ExcludedTokens :
                 ~Includes(name, t) /\ ~Includes(localName, t)

(***************************************************************************)
(* Claims on the configuration and the processing order                    *)
(***************************************************************************)

C31_Called == uq'.calls.updateConfig # uq.calls.updateConfig

\* C31: after updateConfig(c) the active configuration equals c in every
\* field: the whole structure is replaced, never only some of its fields.
C31_UpdateReplacesWhole ==
    [][C31_Called =>
          LET c == Last(uq'.configArgs)
          IN /\ DOMAIN c = DOMAIN uq'.config
             /\ \A k \in DOMAIN c : uq'.config[k] = c[k]]_vars

\* C31, amended: updateConfig(c) assigns, in one step that touches nothing
\* else, a configuration that has c's value in every field c supplies and the
\* previous value in every other field; it equals c when c supplies every
\* field.
C31_UpdateMergesInOneStep ==
    [][C31_Called =>
          LET c == Last(uq'.configArgs)
          IN /\ DOMAIN uq'.config = DOMAIN uq.config
             /\ \A k \in DOMAIN uq.config :
                   uq'.config[k] = IF k \in DOMAIN c THEN c[k] ELSE uq.config[k]
             /\ (DOMAIN c = DOMAIN uq.config) => uq'.config = c
             /\ uq' = [uq EXCEPT !.config = uq'.config,
                                 !.configArgs = uq'.configArgs,
                                 !.calls = uq'.calls]]_vars

\* updateConfig({maxRetries: 1}) was called while an item was in flight: the
\* limit is the new one, the other fields are those given at construction.
C31_Witness ==
    /\ uq.configArgs = <<[maxRetries |-> 1]>>
    /\ uq.config = [defaultConfig EXCEPT !.maxRetries = 1]
    /\ Uploading # {}

\* C32: every item a loop selects is, at that moment, the first item of
\* this.queue that is Pending with retries < maxRetries (no item before it in
\* the queue is eligible, so a later item is never taken while an earlier one
\* is eligible); a loop that has finished an item either selects again or
\* ends, and it ends only when the queue holds no eligible item.
C32_Selects(l) ==
    uq'.loops[l].pc = "saveStart" /\ uq.loops[l].pc # "saveStart"

C32_Step ==
    \A l \in LoopIds :
        /\ C32_Selects(l) =>
              LET o == uq'.loops[l].item
                  h == uq'.hist[o]
              IN /\ InQueue(uq', o)
                 /\ uq'.heap[o].status = "uploading"
                 /\ uq'.heap[o].retries < uq'.config.maxRetries
                 /\ Len(h) >= 2 /\ h[Len(h) - 1] = "pending"
                 /\ \A j \in 1 .. PosIn(uq'.queue, o) - 1 :
                       ~Eligible(uq', uq'.queue[j])
        /\ (uq.loops[l].pc = "saveEnd" /\ uq'.loops[l] # uq.loops[l]) =>
              uq'.loops[l].pc \in {"saveStart", "idle"}
        /\ (uq.loops[l].pc # "idle" /\ uq'.loops[l].pc = "idle") =>
              /\ \A i \in 1 .. Len(uq'.queue) : ~Eligible(uq', uq'.queue[i])
              /\ ~uq'.isProcessing

C32_OldestEligibleFirst == [][C32_Step]_vars

\* The first item of the queue is attempted a second time after a failure
\* while the item behind it, eligible too, has not been attempted yet.
C32_Witness ==
    /\ Len(uq.queue) = 2
    /\ uq.heap[uq.queue[1]].status = "uploading"
    /\ uq.outs[uq.queue[1]] = <<"fail">>
    /\ Eligible(uq, uq.queue[2])
    /\ uq.hist[uq.queue[2]] = <<"pending">>

(***************************************************************************)
(* Claims on the timers of the gesture classifier                          *)
(***************************************************************************)

\* C33: at most one hold timer and at most one decision timer are pending,
\* and the pending one is the one the handle refers to; while the decision
\* timer is pending the counter is the number of releases of the burst (the
\* releases that each arrived while the decision timer of the previous one
\* was pending), otherwise it is 0; an expiry of the decision timer emits
\* exactly one event, SingleClick after a burst of one release and
\* DoubleClick after a burst of two or more, and resets the counter.
C33_State ==
    /\ obs.holdPending = IF holdTimer = "armed" THEN 1 ELSE 0
    /\ obs.clickPending = IF clickTimer = "armed" THEN 1 ELSE 0
    /\ clickCount = IF clickTimer = "armed" THEN obs.burstLen ELSE 0
    /\ clickTimer = "armed" => obs.burstLen >= 1

C33_Expires == obs'.clickPending < obs.clickPending /\ obs'.ups = obs.ups

C33_Step ==
    C33_Expires =>
        /\ clickCount' = 0
        /\ clickTimer' # "armed"
        /\ emitted' = IF obs.burstLen >= 2
                      THEN [emitted EXCEPT !.double = @ + 1]
                      ELSE [emitted EXCEPT !.single = @ + 1]

C33_OneTimerOneDecision == []C33_State /\ [][C33_Step]_vars

\* Three releases, each before the decision of the previous one, and nothing
\* else: the decision timer has run once and one DoubleClick is all that was
\* emitted.
C33_Witness ==
    /\ notifications = 3
    /\ obs.ups = 3
    /\ clickTimer = "fired"
    /\ clickCount = 0
    /\ emitted = [single |-> 0, double |-> 1, hold |-> 0]

(***************************************************************************)
(* Claims on pre-classified notifications                                  *)
(***************************************************************************)

C34_Timing ==
    <<holdTimer, holdLeft, clickTimer, clickLeft, clickCount, sinceLastClick>>

\* C34: a notification whose first byte is the Click, DoubleClick or Hold
\* code emits the mapped gesture, once, in the step that delivers it, and
\* leaves the hold timer, the decision timer, the click counter and the time
\* of the last release as they are; an empty payload emits nothing and
\* changes nothing.
C34_Step ==
    notifications' # notifications =>
        LET p == lastPayload'
            code == IF p.valid /\ Len(p.bytes) > 0 THEN p.bytes[1] ELSE 0
        IN /\ (p.valid /\ Len(p.bytes) = 0) =>
                 /\ emitted' = emitted
                 /\ C34_Timing' = C34_Timing
           /\ code = FLIC_CLICK =>
                 /\ emitted' = [emitted EXCEPT !.single = @ + 1]
                 /\ C34_Timing' = C34_Timing
           /\ code = FLIC_DOUBLE_CLICK =>
                 /\ emitted' = [emitted EXCEPT !.double = @ + 1]
                 /\ C34_Timing' = C34_Timing
           /\ code = FLIC_HOLD =>
                 /\ emitted' = [emitted EXCEPT !.hold = @ + 1]
                 /\ C34_Timing' = C34_Timing

C34_PreClassifiedEmitsDirectly == [][C34_Step]_vars

\* A pre-classified DoubleClick has arrived between a release and its
\* decision: the DoubleClick is emitted and the decision timer of the release
\* is still pending with its counter.
C34_Witness ==
    /\ lastPayload = [valid |-> TRUE, bytes |-> <<FLIC_DOUBLE_CLICK>>]
    /\ emitted = [single |-> 0, double |-> 1, hold |-> 0]
    /\ clickTimer = "armed"
    /\ clickLeft < DecideMs
    /\ clickCount = 1
    /\ obs.ups = 1

(***************************************************************************)
(* Claims on disconnect(), the scan timeout and connection attempts        *)
(***************************************************************************)

C35_Calls == flic'.calls.disconnect # flic.calls.disconnect
C35_Returns == flic'.cancels < flic.cancels
C35_Settled(f) == ~f.device /\ ~f.isScanning /\ ~f.reconnectInterval

\* C35: disconnect() clears the reconnect interval when it is called; when it
\* returns (at once without a peripheral handle, after cancelConnection()
\* otherwise) no handle is held and isScanning is false, and the return does
\* not set the interval; called in the state it leaves (no handle, isScanning
\* false, no reconnect interval) it changes nothing of the service and
\* reports "not connected" again.
C35_Step ==
    /\ C35_Calls =>
          /\ ~flic'.reconnectInterval
          /\ ~flic.device => (C35_Settled(flic') /\ flic'.cancels = flic.cancels)
    /\ C35_Returns =>
          /\ ~flic'.device
          /\ ~flic'.isScanning
          /\ flic'.nativeScans = 0
          /\ flic'.reconnectInterval = flic.reconnectInterval
    /\ (C35_Calls /\ C35_Settled(flic)) =>
          flic' = [flic EXCEPT !.calls = flic'.calls, !.suspended = TRUE,
                               !.reported = "false"]

C35_DisconnectIsIdempotent == [][C35_Step]_vars

\* disconnect() has been called a second time when the first call had
\* returned and the service was as that call had left it; the reconnect
\* interval had been running before, and the service is in that state still.
C35_Witness ==
    /\ flic.calls.disconnect = 2
    /\ flic.calls.repeats = 1
    /\ flic.calls.bleOn = 1
    /\ flic.cancels = 0
    /\ C35_Settled(flic)
    /\ flic.reported = "false"

\* C37: a scan timeout stops only the scan whose startScanning() call armed
\* it: whenever a scan timeout stops a scan, that scan has lasted the whole
\* scan window (15 s).
C37_TimeoutStops ==
    \E t \in flic.timers :
        /\ t.kind = "scanTimeout"
        /\ t.left = 0
        /\ flic'.timers = flic.timers \ {t}
        /\ flic.isScanning
        /\ ~flic'.isScanning

C37_TimeoutEndsItsOwnScan ==
    [][C37_TimeoutStops => flic.scanAge = ScanWindowMs]_vars

\* C38: at most one connection attempt is in flight, and no device scan runs
\* and no startScanning() call is under way while a connection attempt is in
\* progress or a peripheral handle is held.
C38_SingleAttemptNoScan ==
    /\ flic.connecting + flic.discovering <= 1
    /\ (flic.connecting + flic.discovering > 0 \/ flic.device) =>
          /\ ~flic.isScanning
          /\ flic.nativeScans = 0
          /\ flic.permReqs.timer = 0

\* C39: once disconnect() has returned, no gesture is delivered to the
\* delegate (as long as no peripheral is connected again, which is the case
\* in all the runs considered here): a hold timer or a decision timer armed
\* before the disconnect emits nothing afterwards.
C39_Returned == flic.calls.disconnect > 0 /\ flic.cancels = 0 /\ ~flic.device

C39_NoGestureAfterDisconnect == [][C39_Returned => emitted' = emitted]_vars

(***************************************************************************)
(* Claims on the start of the upload queue                                 *)
(***************************************************************************)

\* C36: an item that enqueue() has accepted stays in the in-memory queue as
\* long as it is not finished (only clearCompleted() and the cleanup remove
\* items, and only Completed or Failed ones), and once loadQueue() has
\* completed every unfinished item of the previous session is in the queue;
\* also when enqueue() is called before loadQueue() has completed.
C36_NoItemIsLost ==
    /\ \A o \in Allocated :
          uq.heap[o].status \in {"pending", "uploading"} => InQueue(uq, o)
    /\ ~uq.loadPending =>
          \A i \in 1 .. Len(uq.loaded.items) :
              \E o \in Allocated :
                  /\ uq.heap[o].id = uq.loaded.items[i].id
                  /\ InQueue(uq, o) \/ uq.heap[o].status \in {"completed", "failed"}

(***************************************************************************)
(* Claims on overlapping starts of the recorder                            *)
(***************************************************************************)

\* C40: at most one recorder.start() call is in flight at any time, and at
\* most one Audio.Recording object is prepared or recording.
C40_SingleSession ==
    /\ BagCardinality(app.starts) <= 1
    /\ Cardinality({o \in 1 .. Len(app.objs) :
                        app.objs[o] \in {"prepared", "started"}}) <= 1

====
